---- MODULE Spec2Model ----
(***************************************************************************)
(* A model of the vista-sdk Rust core: the Gmod arena graph (Gmod::new),   *)
(* its depth-first traversal (Gmod::traverse, Gmod::traverse_from,         *)
(* Gmod::traverse_node with its TraversalContext and VecSet), and the      *)
(* process-wide Gmod cache of Vis (Vis::get_gmod).                         *)
(*                                                                         *)
(* Arena indices are the u32 values of the source (0-based); a Vec is a    *)
(* sequence and At(v, i) reads position i of it.                           *)
(***************************************************************************)
EXTENDS Integers, Sequences, FiniteSets, TLC

(***************************************************************************)
(* Bounds of the model.                                                    *)
(***************************************************************************)
\* number of node records of a definition structure
NumNodes == 3
\* largest number of parent/child pairs of a definition structure
MaxRel == 3
\* largest number of nested traverse_node calls the call stack can hold
MaxDepth == 6
\* number of threads that call Vis::get_gmod
NumThreads == 2
\* largest number of parent/child pairs of a definition structure that the
\* queries are made on
MaxQueryRel == 2

MaxOrderRel == 3
\* number of values of the VisVersion enumeration
NumVersions == 3
\* largest number of Gmod builds of a run of concurrent callers
MaxBuilds == 2
\* largest number of Gmod builds of a run of one caller
MaxSeqBuilds == 3
\* the time at which the clock stops
MaxClock == 61

(***************************************************************************)
(* Vec helpers.                                                            *)
(***************************************************************************)
At(v, i) == v[i + 1]

Last(v) == v[Len(v)]

Front(v) == SubSeq(v, 1, Len(v) - 1)

Range(v) == {v[k] : k \in 1..Len(v)}

\* Vec::retain(|v| *v != value)
RECURSIVE Retain(_, _)
Retain(v, value) ==
    IF v = <<>> THEN <<>>
    ELSE IF Head(v) # value THEN <<Head(v)>> \o Retain(Tail(v), value)
    ELSE Retain(Tail(v), value)

(***************************************************************************)
(* The definition structure (GmodDto) and the node codes.                  *)
(***************************************************************************)
CodeNames == <<"VE", "100a", "200a", "300a", "400a">>

Codes == {CodeNames[k] : k \in 1..NumNodes}

\* the code Gmod::root_node and Gmod::traverse look up
RootCode == "VE"

GmodNodeDto(code) == [code |-> code, category |-> "ASSET FUNCTION", node_type |-> "GROUP"]

\* the VisVersion enumeration, a value written as its Display string
VersionNames == <<"3-4a", "3-5a", "3-6a", "3-7a">>

\* a String of the program is the sequence of its characters
VersionStrings ==
    << <<"3", "-", "4", "a">>, <<"3", "-", "5", "a">>,
       <<"3", "-", "6", "a">>, <<"3", "-", "7", "a">> >>

\* VisVersion::to_string
VisVersionToString(version) ==
    VersionStrings[CHOOSE k \in 1..Len(VersionNames) : VersionNames[k] = version]

\* VisVersion::from_str: the version whose Display string is str, or NoVersion
VisVersionFromStr(str) ==
    LET known == {k \in 1..NumVersions : VersionStrings[k] = str}
    IN  IF known = {} THEN "NoVersion" ELSE VersionNames[CHOOSE k \in known : TRUE]

\* Relation lists of length at most n, each with the number k of non-root
\* codes it mentions.  A code is only a name, and the arena position of a node
\* is the position of its name in CodeNames, so lists that differ by a renaming
\* of the non-root codes build the same graph up to the numbering of its nodes:
\* the lists are enumerated with the non-root codes first mentioned in the
\* order of CodeNames.
RECURSIVE RelationLists(_)
RelationLists(n) ==
    IF n = 0 THEN {<<<<>>, 0>>}
    ELSE LET shorter == RelationLists(n - 1)
             Known(k) == {CodeNames[j] : j \in 1..(IF k + 2 <= NumNodes THEN k + 2 ELSE NumNodes)}
             Mentions(k, code) == IF k + 2 <= NumNodes /\ code = CodeNames[k + 2] THEN k + 1 ELSE k
         IN  shorter \cup
             UNION {UNION {{<<Append(e[1], <<parent, child>>), Mentions(Mentions(e[2], parent), child)>> :
                              child \in Known(Mentions(e[2], parent))} :
                           parent \in Known(e[2])} :
                    e \in {t \in shorter : Len(t[1]) = n - 1}}

\* definition structures whose node records are the NumNodes codes, in order,
\* and whose relations resolve (the record source's pre-validated output)
ValidDtos ==
    {[vis_release |-> VisVersionToString("3-4a"),
      items |-> [k \in 1..NumNodes |-> GmodNodeDto(CodeNames[k])],
      relations |-> e[1]] : e \in RelationLists(MaxRel)}

(***************************************************************************)
(* Gmod::new                                                               *)
(***************************************************************************)
\* the first loop of Gmod::new: index.insert(code, i) for i in 0..items.len();
\* a later insert of the same code overwrites the earlier one
RECURSIVE BuildIndex(_, _, _)
BuildIndex(items, i, index) ==
    IF i = Len(items) THEN index
    ELSE LET code == At(items, i).code
         IN  BuildIndex(items, i + 1,
                 [c \in (DOMAIN index) \cup {code} |-> IF c = code THEN i ELSE index[c]])

\* the first loop of Gmod::new: nodes.push(GmodNode { .. })
BuildNodes(items) ==
    [k \in 1..Len(items) |->
        [code |-> items[k].code,
         location |-> "",
         metadata |-> [category |-> items[k].category, node_type |-> items[k].node_type]]]

\* the outcome of a call that aborts (unwrap of None, expect of Err)
Panic == [panic |-> TRUE]

IsPanic(x) == "panic" \in DOMAIN x

\* a variant of the second loop that passes over a relation whose parent or
\* child the index does not have
RECURSIVE AddRelations_SkipsUnknown(_, _, _, _)
AddRelations_SkipsUnknown(relations, k, index, adj) ==
    IF k > Len(relations) THEN adj
    ELSE LET parent == relations[k][1]
             child == relations[k][2]
         IN  IF parent \notin DOMAIN index \/ child \notin DOMAIN index
             THEN AddRelations_SkipsUnknown(relations, k + 1, index, adj)
             ELSE LET p == index[parent]
                      c == index[child]
                  IN  AddRelations_SkipsUnknown(relations, k + 1, index,
                          [children |-> [adj.children EXCEPT ![p + 1] = Append(@, c)],
                           parents |-> [adj.parents EXCEPT ![c + 1] = Append(@, p)]])

\* the second loop of Gmod::new over dto.relations, from relation k on;
\* adj = [children, parents], or Panic when index.get(..).unwrap() fails
RECURSIVE AddRelations(_, _, _, _)
AddRelations(relations, k, index, adj) ==
    IF k > Len(relations) THEN adj
    ELSE LET parent == relations[k][1]
             child == relations[k][2]
         IN  IF parent \notin DOMAIN index \/ child \notin DOMAIN index THEN Panic
             ELSE LET p == index[parent]
                      c == index[child]
                  IN  AddRelations(relations, k + 1, index,
                          [children |-> [adj.children EXCEPT ![p + 1] = Append(@, c)],
                           parents |-> [adj.parents EXCEPT ![c + 1] = Append(@, p)]])

\* a variant that records a relation with the parent only
GmodNew_ChildrenOnly(dto) ==
    LET index == BuildIndex(dto.items, 0, <<>>)
        nodes == BuildNodes(dto.items)
        empty == [k \in 1..Len(dto.items) |-> <<>>]
        adj == AddRelations(dto.relations, 1, index, [children |-> empty, parents |-> empty])
        version == VisVersionFromStr(dto.vis_release)
    IN  IF IsPanic(adj) \/ version = "NoVersion" THEN Panic
        ELSE [version |-> version,
              index |-> index,
              children |-> adj.children,
              parents |-> empty,
              nodes |-> nodes]

\* a variant that pushes the nodes from the last record to the first
GmodNew_NodesReversed(dto) ==
    LET index == BuildIndex(dto.items, 0, <<>>)
        nodes == BuildNodes(dto.items)
        empty == [k \in 1..Len(dto.items) |-> <<>>]
        adj == AddRelations(dto.relations, 1, index, [children |-> empty, parents |-> empty])
        version == VisVersionFromStr(dto.vis_release)
    IN  IF IsPanic(adj) \/ version = "NoVersion" THEN Panic
        ELSE [version |-> version,
              index |-> index,
              children |-> adj.children,
              parents |-> adj.parents,
              nodes |-> [k \in 1..Len(nodes) |-> nodes[Len(nodes) + 1 - k]]]

\* a variant whose second loop goes through the relations from the last to
\* the first
GmodNew_RelationsReversed(dto) ==
    LET index == BuildIndex(dto.items, 0, <<>>)
        nodes == BuildNodes(dto.items)
        empty == [k \in 1..Len(dto.items) |-> <<>>]
        reversed == [k \in 1..Len(dto.relations) |-> dto.relations[Len(dto.relations) + 1 - k]]
        adj == AddRelations(reversed, 1, index, [children |-> empty, parents |-> empty])
        version == VisVersionFromStr(dto.vis_release)
    IN  IF IsPanic(adj) \/ version = "NoVersion" THEN Panic
        ELSE [version |-> version,
              index |-> index,
              children |-> adj.children,
              parents |-> adj.parents,
              nodes |-> nodes]

\* a variant whose second loop leaves out the last relation
GmodNew_SkipsLastRelation(dto) ==
    LET index == BuildIndex(dto.items, 0, <<>>)
        nodes == BuildNodes(dto.items)
        empty == [k \in 1..Len(dto.items) |-> <<>>]
        adj == AddRelations(SubSeq(dto.relations, 1, Len(dto.relations) - 1), 1, index,
                            [children |-> empty, parents |-> empty])
        version == VisVersionFromStr(dto.vis_release)
    IN  IF IsPanic(adj) \/ version = "NoVersion" THEN Panic
        ELSE [version |-> version,
              index |-> index,
              children |-> adj.children,
              parents |-> adj.parents,
              nodes |-> nodes]

GmodNew(dto) ==
    LET index == BuildIndex(dto.items, 0, <<>>)
        nodes == BuildNodes(dto.items)
        empty == [k \in 1..Len(dto.items) |-> <<>>]
        adj == AddRelations(dto.relations, 1, index, [children |-> empty, parents |-> empty])
        version == VisVersionFromStr(dto.vis_release)
    IN  IF IsPanic(adj) \/ version = "NoVersion" THEN Panic
        ELSE [version |-> version,
              index |-> index,
              children |-> adj.children,
              parents |-> adj.parents,
              nodes |-> nodes]

(***************************************************************************)
(* State                                                                   *)
(***************************************************************************)
VARIABLES
    gmod,       \* the Gmod the traversal runs on
    pc,         \* "idle", "running" or "done": position of the traverse_from call
    start,      \* arena index of the node the traversal was started at
    context,    \* TraversalContext: [ids: VecSet.inner, parents: Vec<u32>]
    frames,     \* call stack of traverse_node: [index, at, child]
    ret,        \* value the outermost traverse_node call returned, or "none"
    result,     \* value returned by traverse_from (meaningful when pc = "done")
    trace,      \* handler invocations so far: [parents, node, result, callers, route]
    clock,      \* the time, in seconds
    gmod_cache, \* Vis.gmod_cache: per version its entry [value, stored] or NoEntry
    waiters,    \* per version the thread that evaluates get_with's closure, or 0
    threads,    \* per thread the position of its Vis::get_gmod call
    arcs,       \* the Gmod instances built so far; an Arc<Gmod> is a position here
    lru,        \* the versions that have an entry, least recently used first
    assets,     \* the embedded resources: the files of the resources folder
    returned,   \* the Vis::get_gmod call that returned last, or NoCall
    named,      \* the versions that calls of Vis::get_gmod have been made with
    gmod_dto,   \* the GmodDto a caller builds a Gmod from, or NoDto
    node,       \* the GmodNode value a caller holds, or NoNode
    answer,     \* the query of the Gmod that was answered last, or NoAnswer
    suspended   \* the traversal of the thread that is not running: its locals

travvars == <<gmod, pc, start, context, frames, ret, result, trace>>

visvars == <<clock, gmod_cache, waiters, threads, arcs, lru, assets, returned, named>>

queryvars == <<gmod_dto, node, answer>>

vars == <<travvars, visvars, queryvars, suspended>>

NoDto == [vis_release |-> <<>>, items |-> <<>>, relations |-> <<>>]

NoNode == [code |-> "none"]

NoAnswer == [op |-> "none"]

\* the locals of a thread that has not called traverse_from
NotStarted ==
    [pc |-> "idle", start |-> 0, context |-> [ids |-> <<>>, parents |-> <<>>],
     frames |-> <<>>, ret |-> "none", result |-> FALSE, trace |-> <<>>]

\* the state of the variables of the queries and of the second thread while
\* no query is made and one thread runs
NoQuery ==
    /\ gmod_dto = NoDto
    /\ node = NoNode
    /\ answer = NoAnswer
    /\ suspended = NotStarted

TraversalHandlerResult == {"Stop", "SkipSubtree", "Continue"}

(***************************************************************************)
(* VecSet and TraversalContext                                             *)
(***************************************************************************)
VecSetContains(inner, value) == value \in Range(inner)

VecSetInsert(inner, value) ==
    IF VecSetContains(inner, value) THEN inner ELSE Append(inner, value)

\* a variant that removes the oldest element whatever the value is
VecSetRemove_Oldest(inner, value) == Tail(inner)

VecSetRemove(inner, value) == Retain(inner, value)

\* a variant that only recognises the node the path ends with
ContextHas_LastOnly(ctx, index) == ctx.parents # <<>> /\ Last(ctx.parents) = index

ContextHas(ctx, index) == VecSetContains(ctx.ids, index)

ContextPush(ctx, index) ==
    [ids |-> VecSetInsert(ctx.ids, index), parents |-> Append(ctx.parents, index)]

\* a variant that keeps the popped index in the membership set, which
\* turns ids into a set of all nodes ever entered
ContextPop_KeepsId(ctx) == [ids |-> ctx.ids, parents |-> Front(ctx.parents)]

\* a variant that forgets to pop the parents stack
ContextPop_KeepsParent(ctx) ==
    [ids |-> VecSetRemove(ctx.ids, Last(ctx.parents)), parents |-> ctx.parents]

ContextPop(ctx) ==
    [ids |-> VecSetRemove(ctx.ids, Last(ctx.parents)), parents |-> Front(ctx.parents)]

(***************************************************************************)
(* Gmod::traverse_from, Gmod::traverse                                     *)
(***************************************************************************)
NewFrame(index) == [index |-> index, at |-> "enter", child |-> 0]

TraverseFromCall(from_node) ==
    /\ pc = "idle"
    /\ from_node.code \in DOMAIN gmod.index
    /\ LET index == gmod.index[from_node.code]
       IN  /\ start' = index
           /\ context' = [ids |-> <<>>, parents |-> <<>>]
           /\ frames' = <<NewFrame(index)>>
    /\ pc' = "running"
    /\ ret' = "none"
    /\ UNCHANGED <<gmod, result, trace, visvars, queryvars, suspended>>

TraverseFrom ==
    \E k \in 1..Len(gmod.nodes) : TraverseFromCall(gmod.nodes[k])

\* the Gmod is not built
NoGmod == [version |-> "NoVersion", index |-> <<>>, children |-> <<>>, parents |-> <<>>,
           nodes |-> <<>>]

IsGmod(g) == ~IsPanic(g) /\ g # NoGmod

\* Gmod::traverse: self.index["VE"] aborts when the index has no entry for
\* "VE", before traverse_from is called
Traverse ==
    /\ IsGmod(gmod)
    /\ IF RootCode \in DOMAIN gmod.index
       THEN TraverseFromCall(At(gmod.nodes, gmod.index[RootCode]))
       ELSE /\ pc = "idle"
            /\ pc' = "panicked"
            /\ UNCHANGED <<gmod, start, context, frames, ret, result, trace, visvars,
                           queryvars, suspended>>

\* result == TraversalHandlerResult::Continue
TraverseFromResult(r) == r = "Continue"

TraverseFromReturn ==
    /\ pc = "running"
    /\ frames = <<>>
    /\ ret # "none"
    /\ result' = TraverseFromResult(ret)
    /\ pc' = "done"
    /\ UNCHANGED <<gmod, start, context, frames, ret, trace, visvars, queryvars, suspended>>

(***************************************************************************)
(* Gmod::traverse_node                                                     *)
(***************************************************************************)
Pop(stack) == Front(stack)

Top(stack) == Last(stack)

SetTop(stack, f) == [stack EXCEPT ![Len(stack)] = f]

\* arena indices of the traverse_node calls that are in their children loop
Callers(stack) == [k \in 1..Len(stack) - 1 |-> stack[k].index]

\* the positions, in each caller's children list, of the edges that lead to
\* the traverse_node call on top of the stack
Route(stack) == [k \in 1..Len(stack) - 1 |-> stack[k].child]

\* a variant that descends into the children after SkipSubtree
ReturnsEarly_OnlyStop(r) == r = "Stop"

\* the handler's answer ends this traverse_node call without descent
ReturnsEarly(r) == r = "Stop" \/ r = "SkipSubtree"

\* a variant whose loop goes on to the next child after a Stop
ChildStops_Never(r) == FALSE

\* the child's result ends the loop (and this call) with that result
ChildStops(r) == r = "Stop"

\* The call on top of the stack returns r.  Its caller, if any, is in its
\* children loop and inspects r: Stop is returned on at once (without
\* context.pop), anything else lets the loop go on with the next child.
RECURSIVE Return(_, _)
Return(stack, r) ==
    LET callers == Pop(stack)
    IN  IF callers = <<>> THEN [frames |-> <<>>, ret |-> r]
        ELSE IF ChildStops(r) THEN Return(callers, r)
        ELSE [frames |-> SetTop(callers, [Top(callers) EXCEPT !.child = @ + 1]),
              ret |-> "none"]

\* entry of traverse_node: the context.has check and the handler invocation
TraverseNodeEnter ==
    /\ pc = "running"
    /\ frames # <<>>
    /\ Top(frames).at = "enter"
    /\ LET index == Top(frames).index
       IN  IF ContextHas(context, index)
           THEN /\ frames' = Return(frames, "Continue").frames
                /\ ret' = Return(frames, "Continue").ret
                /\ UNCHANGED <<context, trace>>
           ELSE \E r \in TraversalHandlerResult :
                /\ trace' = Append(trace, [parents |-> context.parents, node |-> index,
                                           result |-> r, callers |-> Callers(frames),
                                           route |-> Route(frames)])
                /\ IF ReturnsEarly(r)
                   THEN /\ frames' = Return(frames, r).frames
                        /\ ret' = Return(frames, r).ret
                        /\ UNCHANGED context
                   ELSE /\ context' = ContextPush(context, index)
                        /\ frames' = SetTop(frames, [Top(frames) EXCEPT !.at = "loop"])
                        /\ UNCHANGED ret
    /\ UNCHANGED <<gmod, pc, start, result, visvars, queryvars, suspended>>

\* a variant whose loop leaves out the last child
HasNextChild_SkipsLast(child, children) == child + 1 < Len(children)

\* children.iter() has an element at position child
HasNextChild(child, children) == child < Len(children)

\* the for loop over children: call traverse_node for the next child, or
\* leave the loop, pop the context and return Continue
TraverseNodeLoop ==
    /\ pc = "running"
    /\ frames # <<>>
    /\ Top(frames).at = "loop"
    /\ LET f == Top(frames)
           children == At(gmod.children, f.index)
       IN  IF HasNextChild(f.child, children)
           THEN /\ Len(frames) < MaxDepth
                /\ frames' = Append(frames, NewFrame(At(children, f.child)))
                /\ UNCHANGED <<context, ret>>
           ELSE /\ context' = ContextPop(context)
                /\ frames' = Return(frames, "Continue").frames
                /\ ret' = Return(frames, "Continue").ret
    /\ UNCHANGED <<gmod, pc, start, result, trace, visvars, queryvars, suspended>>

(***************************************************************************)
(* Vis: the process-wide Gmod cache                                        *)
(*                                                                         *)
(* gmod_cache is a moka sync Cache built with max_capacity(2) and          *)
(* time_to_live(60 s).  Cache::get_with(key, init) returns the live entry  *)
(* of key, or else evaluates init and inserts its value; concurrent calls  *)
(* for one absent key are coalesced: one of them evaluates its closure,    *)
(* the others wait for it and receive its value.                           *)
(***************************************************************************)
\* Cache::builder().max_capacity(2)
MaxCapacity == 2

\* Cache::builder().time_to_live(Duration::from_secs(60))
TimeToLive == 60

VisVersions == {VersionNames[k] : k \in 1..NumVersions}

Threads == 1..NumThreads

\* str::contains: pat occurs in str
Contains(str, pat) ==
    \E i \in 0..(Len(str) - Len(pat)) : SubSeq(str, i + 1, i + Len(pat)) = pat

GmodPattern == <<"g", "m", "o", "d">>

\* the name of the file of a kind of resource for a release
FileName(kind, release) ==
    kind \o <<"-", "v", "i", "s", "-">> \o release
         \o <<".", "j", "s", "o", "n", ".", "g", "z">>

\* the codes that end with EXCLUDE_PATTERN
EndsWithExcludePattern(code) == code \in {"199", "299"}

\* what a file holds, by what deserialize_gmod_dto makes of it: bytes that
\* read_to_string cannot read (they do not gunzip, or gunzip to data that is
\* not UTF-8), bytes that gunzip to text that is not the JSON of a GmodDto,
\* the gzipped JSON of a GmodDto whose visRelease is the release in the name
\* of the file, or the gzipped JSON of a GmodDto whose visRelease is the
\* release of another version of the enumeration
Payloads == {"unreadable", "malformed", "gmod", "retagged"}

\* the GmodDto that the JSON of a gmod file parses to, release being the
\* visRelease that the JSON has
PayloadDto(release) ==
    [vis_release |-> release,
     items |-> <<GmodNodeDto(CodeNames[1]), GmodNodeDto(CodeNames[2]), GmodNodeDto("199")>>,
     relations |-> <<<<CodeNames[1], CodeNames[2]>>, <<CodeNames[1], "199">>>>]

\* the kinds of resource, and the word that the names of their files begin with
FileKinds ==
    [gmod |-> GmodPattern,
     codebooks |-> <<"c", "o", "d", "e", "b", "o", "o", "k", "s">>]

\* a file of the resources folder: the kind of resource and the release that
\* its name has, what it holds, and the version whose release its content
\* gives as visRelease; the content of File(..) gives the release of the name
File(kind, version, payload) ==
    [kind |-> kind, version |-> version, payload |-> payload, tag |-> version]

\* the gmod file named after a version whose content gives the release of tag
Retagged(version, tag) ==
    [kind |-> "gmod", version |-> version, payload |-> "retagged", tag |-> tag]

\* the paths of the files of each kind and release
FilePaths ==
    [kind \in DOMAIN FileKinds |->
        [k \in 1..Len(VersionNames) |-> FileName(FileKinds[kind], VersionStrings[k])]]

\* the path of a file, from which get_gmod_dto takes its name
FilePath(file) ==
    FilePaths[file.kind][CHOOSE k \in 1..Len(VersionNames) : VersionNames[k] = file.version]

\* the words that get_gmod_dto looks for in the name of a file
Patterns == {GmodPattern} \cup Range(VersionStrings)

\* for the path of each kind and release, the words of Patterns it contains
PathContains ==
    [kind \in DOMAIN FileKinds |->
        [k \in 1..Len(VersionNames) |->
            {pat \in Patterns : Contains(FilePaths[kind][k], pat)}]]

\* f.contains(pat) for the name f of a file
NameContains(file, pat) ==
    IF pat \in Patterns
    THEN pat \in PathContains[file.kind][CHOOSE k \in 1..Len(VersionNames) :
                                              VersionNames[k] = file.version]
    ELSE Contains(FilePath(file), pat)

\* the resources as they are shipped: a sound gmod file for each version
SoundAssets == [k \in 1..NumVersions |-> File("gmod", VersionNames[k], "gmod")]

\* a resource that is not a gmod file, named after the last version
CodebooksFile == File("codebooks", VersionNames[NumVersions], "malformed")

\* a list of files, and the list from its last file to its first
Orders(files) ==
    {files, [k \in 1..Len(files) |-> files[Len(files) + 1 - k]]}

\* the resources folders a run can find: the shipped files and a file that is
\* not a gmod file, iterated in the order of their names or in the opposite
\* order, with at most one gmod file missing, holding something else than a
\* GmodDto, or holding the GmodDto of the release of any other version
AssetLists ==
    LET damages == {[k |-> 0, payload |-> "gmod", tag |-> 0]}
                       \cup [k : 1..NumVersions,
                             payload : (Payloads \ {"gmod", "retagged"}) \cup {"absent"},
                             tag : {0}]
                       \cup {d \in [k : 1..NumVersions, payload : {"retagged"},
                                    tag : 1..NumVersions] : d.tag # d.k}
        folder(d) == <<CodebooksFile>> \o
                         [k \in 1..NumVersions |->
                             IF d.k # k THEN File("gmod", VersionNames[k], "gmod")
                             ELSE IF d.payload = "retagged"
                             THEN Retagged(VersionNames[k], VersionNames[d.tag])
                             ELSE File("gmod", VersionNames[k], d.payload)]
        present(d) == SelectSeq(folder(d), LAMBDA f : f.payload # "absent")
    IN  UNION {Orders(present(d)) : d \in damages}

Err(kind) == [error |-> kind]

IsErr(x) == "error" \in DOMAIN x

\* Option: None or Some(x)
None == [none |-> TRUE]

Some(x) == [some |-> x]

IsSome(x) == "some" \in DOMAIN x

\* the visRelease in the JSON that a file holds
VisRelease(file) == VisVersionToString(file.tag)

\* Asset::get: the file of a path, if the folder has one
AssetGet(files, path) ==
    LET found == {k \in 1..Len(files) : FilePath(files[k]) = path}
    IN  IF found = {} THEN None ELSE Some(files[CHOOSE k \in found : TRUE])

\* deserialize_gmod_dto: the assertion on the name, Asset::get, gunzip into
\* a String, parse, and drop the excluded codes
DeserializeGmodDto(files, gmod_file_name) ==
    IF ~Contains(gmod_file_name, GmodPattern) THEN [panic |-> TRUE, cause |-> "assert"]
    ELSE LET gmod_file == AssetGet(files, gmod_file_name)
         IN  IF ~IsSome(gmod_file) THEN Err("ResourceNotFound")
             ELSE IF gmod_file.some.payload = "unreadable" THEN Err("ReadError")
             ELSE IF gmod_file.some.payload = "malformed" THEN Err("DeserializationError")
             ELSE LET gmod_json == PayloadDto(VisRelease(gmod_file.some))
                  IN  [vis_release |-> gmod_json.vis_release,
                       items |-> SelectSeq(gmod_json.items,
                                     LAMBDA item : ~EndsWithExcludePattern(item.code)),
                       relations |-> SelectSeq(gmod_json.relations,
                                     LAMBDA r : ~EndsWithExcludePattern(r[1])
                                                /\ ~EndsWithExcludePattern(r[2]))]

\* a variant that takes the first gmod file, whatever its name says of the version
GetGmodDto_AnyVersion(files, vis_version) ==
    LET found == {k \in 1..Len(files) : NameContains(files[k], GmodPattern)}
    IN  IF found = {} THEN Err("ResourceNotFound")
        ELSE DeserializeGmodDto(files, FilePath(files[CHOOSE k \in found : \A j \in found : k <= j]))

\* get_gmod_dto: the first file whose name contains "gmod" and vis_version
GetGmodDto(files, vis_version) ==
    LET found == {k \in 1..Len(files) :
                     NameContains(files[k], GmodPattern) /\ NameContains(files[k], vis_version)}
    IN  IF found = {} THEN Err("ResourceNotFound")
        ELSE DeserializeGmodDto(files, FilePath(files[CHOOSE k \in found : \A j \in found : k <= j]))

\* the closure Vis::get_gmod hands to get_with: the Gmod of the version, or
\* the panic of expect or of Gmod::new
Closure(files, version) ==
    LET dto == GetGmodDto(files, VisVersionToString(version))
    IN  IF IsPanic(dto) THEN dto
        ELSE IF IsErr(dto) THEN [panic |-> TRUE, cause |-> dto.error]
        ELSE GmodNew(dto)

NoEntry == [absent |-> TRUE]

IsEntry(e) == "value" \in DOMAIN e

Idle == [pc |-> "idle"]

NoCall == [kind |-> "none"]

\* a variant without time_to_live: an entry never expires
IsExpired_Never(e, now) == FALSE

\* an entry has expired when its time to live has passed since it was stored
IsExpired(e, now) == e.stored + TimeToLive <= now

\* a variant whose lookup never finds an entry
Lookup_Misses(version) == NoEntry

\* Cache::get: the entry of a version, unless absent or expired
Lookup(version) ==
    LET e == gmod_cache[version]
    IN  IF IsEntry(e) /\ ~IsExpired(e, clock) THEN e ELSE NoEntry

\* a variant that looks the entry up and builds on a miss without asking
\* whether a build of that version is under way (get, then insert)
InFlight_Unchecked(version) == FALSE

\* get_with: another call is evaluating the closure for this version
InFlight(version) == waiters[version] # 0

\* the number of builds of a version so far
Builds(version) == Cardinality({k \in 1..Len(arcs) : arcs[k].version = version})

\* the number of builds that have begun and not yet produced their Gmod
Building == Cardinality({t \in Threads : threads[t].pc = "init"})

\* a call of get_gmod under way: the version it asked for, what the cache
\* held for that version when it asked, and the build (counted per version)
\* its value comes from
Call(pos, version, flight) ==
    [pc |-> pos, version |-> version, found |-> gmod_cache[version],
     flight |-> flight, value |-> 0]

\* a call of get_gmod that returns value now; kind tells how it came by it
Returned(kind, call, value) ==
    [kind |-> kind, version |-> call.version, found |-> call.found,
     flight |-> call.flight, value |-> value, at |-> clock]

\* the versions that a call has named so far, whatever became of the call
Named == named

\* the access order without some versions
Without(order, versions) == SelectSeq(order, LAMBDA v : v \notin versions)

\* a version moves to the most recently used end of the access order
Touch(order, version) == Append(Without(order, {version}), version)

\* Cache::get_with(version, init), up to the point where it has found the
\* entry, has joined the build under way, or has become the one to build
GetWith(t, version) ==
    /\ LET e == Lookup(version)
       IN  IF IsEntry(e)
           THEN /\ returned' = Returned("hit", Call("hit", version, arcs[e.value].flight),
                                        e.value)
                /\ lru' = Touch(lru, version)
                /\ threads' = [threads EXCEPT ![t] = Idle]
                /\ UNCHANGED waiters
           ELSE IF InFlight(version)
           THEN /\ threads' = [threads EXCEPT ![t] =
                        Call("wait", version, threads[waiters[version]].flight)]
                /\ UNCHANGED <<returned, waiters, lru>>
           ELSE /\ threads' = [threads EXCEPT ![t] =
                        Call("init", version, Builds(version) + 1)]
                /\ waiters' = [waiters EXCEPT ![version] = t]
                /\ UNCHANGED <<returned, lru>>
    /\ UNCHANGED <<clock, gmod_cache, arcs, assets, travvars, queryvars, suspended>>

\* Vis::get_gmod(version), up to the point where get_with has found the
\* entry, has joined the build under way, or has become the one to build.
\* Any thread that is not inside a call may call, with any version.
GetGmod(t, version) ==
    /\ threads[t].pc = "idle"
    /\ GetWith(t, version)
    /\ named' = named \cup {version}

\* the closure of get_gmod, get_gmod_dto(..).expect(..) and
\* Arc::new(Gmod::new(&dto)), and what get_with does with its value: the
\* value is inserted with the current time, the waiting calls receive it,
\* and get_gmod returns it
Build(t) ==
    /\ threads[t].pc = "init"
    /\ LET version == threads[t].version
           built == Closure(assets, version)
           value == Len(arcs) + 1
       IN  /\ ~IsPanic(built)
           /\ arcs' = Append(arcs, [version |-> version, flight |-> threads[t].flight,
                                    gmod |-> built])
           /\ gmod_cache' = [gmod_cache EXCEPT ![version] = [value |-> value, stored |-> clock]]
           /\ waiters' = [waiters EXCEPT ![version] = 0]
           /\ threads' = [u \in Threads |->
                  IF u = t THEN Idle
                  ELSE IF threads[u].pc = "wait" /\ threads[u].version = version
                  THEN [threads[u] EXCEPT !.pc = "ready", !.value = value]
                  ELSE threads[u]]
           /\ returned' = Returned("built", threads[t], value)
           /\ lru' = Touch(lru, version)
    /\ UNCHANGED <<clock, assets, named, travvars, queryvars, suspended>>

\* a call of get_gmod that ended in a panic
Panicked(call, panic) ==
    [kind |-> "panic", version |-> call.version, found |-> call.found,
     flight |-> call.flight, value |-> 0, at |-> clock,
     cause |-> IF "cause" \in DOMAIN panic THEN panic.cause ELSE "GmodNew"]

\* a variant in which the calls waiting for a build that panicked are handed
\* the entry found when the build began
BuildPanics_HandsOver(t) ==
    /\ threads[t].pc = "init"
    /\ LET version == threads[t].version
           built == Closure(assets, version)
       IN  /\ IsPanic(built)
           /\ waiters' = [waiters EXCEPT ![version] = 0]
           /\ threads' = [u \in Threads |->
                  IF u = t THEN Idle
                  ELSE IF threads[u].pc = "wait" /\ threads[u].version = version
                  THEN [threads[u] EXCEPT !.pc = "ready"]
                  ELSE threads[u]]
           /\ returned' = Panicked(threads[t], built)
    /\ UNCHANGED <<clock, gmod_cache, arcs, lru, assets, named, travvars, queryvars, suspended>>

\* the closure of get_gmod panics: the panic unwinds through get_with, which
\* inserts nothing and wakes the waiting calls to try again, and ends the
\* call of get_gmod
BuildPanics(t) ==
    /\ threads[t].pc = "init"
    /\ LET version == threads[t].version
           built == Closure(assets, version)
       IN  /\ IsPanic(built)
           /\ waiters' = [waiters EXCEPT ![version] = 0]
           /\ threads' = [u \in Threads |->
                  IF u = t THEN Idle
                  ELSE IF threads[u].pc = "wait" /\ threads[u].version = version
                  THEN [threads[u] EXCEPT !.pc = "retry"]
                  ELSE threads[u]]
           /\ returned' = Panicked(threads[t], built)
    /\ UNCHANGED <<clock, gmod_cache, arcs, lru, assets, named, travvars, queryvars, suspended>>

\* a call woken after the build it waited for panicked starts get_with over
Retry(t) ==
    /\ threads[t].pc = "retry"
    /\ GetWith(t, threads[t].version)
    /\ UNCHANGED named

\* a call that waited for another call's build returns the value it received
WaitReturn(t) ==
    /\ threads[t].pc = "ready"
    /\ returned' = Returned("joined", threads[t], threads[t].value)
    /\ threads' = [threads EXCEPT ![t] = Idle]
    /\ UNCHANGED <<clock, gmod_cache, waiters, arcs, lru, assets, named, travvars, queryvars, suspended>>

\* the moments at which something happens: the start, and the seconds around
\* the time to live of an entry stored at the start
Moments == {m \in 0..MaxClock : m = 0 \/ m >= TimeToLive - 1}

\* the time passes
Tick ==
    /\ \E m \in Moments :
          /\ m > clock
          /\ clock' = m
    /\ UNCHANGED <<gmod_cache, waiters, threads, arcs, lru, assets, returned, named, travvars, queryvars, suspended>>

\* a variant of the housekeeping that evicts down to one entry less than
\* max_capacity
RunPendingTasks_EvictsOneMore ==
    /\ LET expired == {v \in VisVersions :
                          IsEntry(gmod_cache[v]) /\ IsExpired(gmod_cache[v], clock)}
           kept == {v \in VisVersions : IsEntry(gmod_cache[v])} \ expired
       IN  /\ expired # {} \/ Cardinality(kept) > MaxCapacity
           /\ \E evicted \in SUBSET kept :
                 /\ Cardinality(kept) > MaxCapacity => Cardinality(kept \ evicted) = MaxCapacity - 1
                 /\ Cardinality(kept) <= MaxCapacity => evicted = {}
                 /\ gmod_cache' = [v \in VisVersions |->
                        IF v \in expired \cup evicted THEN NoEntry ELSE gmod_cache[v]]
                 /\ lru' = Without(lru, expired \cup evicted)
    /\ UNCHANGED <<clock, waiters, threads, arcs, assets, returned, named, travvars, queryvars, suspended>>

\* the cache's housekeeping: expired entries are removed, and while the cache
\* holds more than max_capacity entries one is evicted.  Which one is decided
\* by the cache's own policy: any entry may be the one.
RunPendingTasks ==
    /\ LET expired == {v \in VisVersions :
                          IsEntry(gmod_cache[v]) /\ IsExpired(gmod_cache[v], clock)}
           kept == {v \in VisVersions : IsEntry(gmod_cache[v])} \ expired
       IN  /\ expired # {} \/ Cardinality(kept) > MaxCapacity
           /\ \E evicted \in SUBSET kept :
                 /\ Cardinality(kept \ evicted) <= MaxCapacity
                 /\ Cardinality(kept) > MaxCapacity => Cardinality(kept \ evicted) = MaxCapacity
                 /\ Cardinality(kept) <= MaxCapacity => evicted = {}
                 /\ gmod_cache' = [v \in VisVersions |->
                        IF v \in expired \cup evicted THEN NoEntry ELSE gmod_cache[v]]
                 /\ lru' = Without(lru, expired \cup evicted)
    /\ UNCHANGED <<clock, waiters, threads, arcs, assets, returned, named, travvars, queryvars, suspended>>

\* the state of Vis::instance() at its first use
VisStart ==
    /\ clock = 0
    /\ gmod_cache = [v \in VisVersions |-> NoEntry]
    /\ waiters = [v \in VisVersions |-> 0]
    /\ threads = [t \in Threads |-> Idle]
    /\ arcs = <<>>
    /\ lru = <<>>
    /\ returned = NoCall
    /\ named = {}

\* the state of the variables of a traversal while none is made
NoTraversal ==
    /\ gmod = Closure(SoundAssets, VersionNames[1])
    /\ pc = "idle"
    /\ start = 0
    /\ context = [ids |-> <<>>, parents |-> <<>>]
    /\ frames = <<>>
    /\ ret = "none"
    /\ result = FALSE
    /\ trace = <<>>

VisInit ==
    /\ VisStart
    /\ assets = SoundAssets
    /\ NoTraversal
    /\ NoQuery

\* a call that would begin a build is made while fewer than max builds have begun
BuildsLeft(version, max) ==
    (~IsEntry(Lookup(version)) /\ ~InFlight(version)) => Len(arcs) + Building < max

\* Threads that are not inside a call are alike: of those, the one of least
\* number makes the next call.
LeastIdle(t) == \A u \in Threads : threads[u].pc = "idle" => t <= u

\* The folders a run can find are the same for every renaming of the
\* versions, so the versions are alike: a version is first named after those
\* before it in the enumeration.
NextNamed(version) ==
    \E k \in 1..NumVersions :
        /\ version = VersionNames[k]
        /\ \A j \in 1..(k - 1) : VersionNames[j] \in Named

VisNext ==
    \/ \E t \in Threads, version \in VisVersions :
          /\ BuildsLeft(version, MaxBuilds)
          /\ LeastIdle(t)
          /\ NextNamed(version)
          /\ GetGmod(t, version)
    \/ \E t \in Threads : Build(t)
    \/ \E t \in Threads : WaitReturn(t)
    \/ Tick
    \/ RunPendingTasks

VisSpec == VisInit /\ [][VisNext]_vars

\* concurrent callers over resources that may fail to load; no time passes
LoadInit ==
    /\ VisStart
    /\ assets \in AssetLists
    /\ NoTraversal
    /\ NoQuery

LoadNext ==
    \/ \E t \in Threads, version \in VisVersions :
          /\ BuildsLeft(version, MaxBuilds)
          /\ LeastIdle(t)
          /\ NextNamed(version)
          /\ GetGmod(t, version)
    \/ \E t \in Threads : Build(t)
    \/ \E t \in Threads : BuildPanics(t)
    \/ \E t \in Threads : Retry(t)
    \/ \E t \in Threads : WaitReturn(t)

LoadSpec == LoadInit /\ [][LoadNext]_vars

\* one caller: a sequence of get_gmod calls, each returned before the next
SeqNext ==
    \/ \E version \in VisVersions :
          /\ BuildsLeft(version, MaxSeqBuilds)
          /\ NextNamed(version)
          /\ GetGmod(1, version)
    \/ Build(1)
    \/ Tick
    \/ RunPendingTasks

SeqSpec == VisInit /\ [][SeqNext]_vars

(***************************************************************************)
(* Specification of a traversal of a constructed Gmod                      *)
(***************************************************************************)
Init ==
    /\ gmod \in {GmodNew(dto) : dto \in ValidDtos}
    /\ pc = "idle"
    /\ start = 0
    /\ context = [ids |-> <<>>, parents |-> <<>>]
    /\ frames = <<>>
    /\ ret = "none"
    /\ result = FALSE
    /\ trace = <<>>
    /\ VisStart
    /\ assets = <<>>
    /\ NoQuery

Next ==
    \/ Traverse
    \/ TraverseFrom
    \/ TraverseNodeEnter
    \/ TraverseNodeLoop
    \/ TraverseFromReturn

Spec == Init /\ [][Next]_vars

\* a traversal is a sequential computation of one thread: a started call
\* keeps executing
FairSpec == Spec /\ WF_vars(Next)

(***************************************************************************)
(* GmodNode copies, adjacency and relationship inference                   *)
(*                                                                         *)
(* A &GmodNode that the Gmod hands out points into its nodes: it is the    *)
(* arena position of the node.  The GmodNode a caller passes to a query    *)
(* is a value: the node a reference points to, or a copy of it.            *)
(***************************************************************************)
Asset == <<"A", "S", "S", "E", "T">>

Function == <<"F", "U", "N", "C", "T", "I", "O", "N">>

Product == <<"P", "R", "O", "D", "U", "C", "T">>

\* the characters of the strings that categories are made of
Chars(str) ==
    CASE str = "" -> <<>>
      [] str = "ASSET" -> Asset
      [] str = "FUNCTION" -> Function
      [] str = "PRODUCT" -> Product
      [] str = "ASSET FUNCTION" -> Asset \o <<" ">> \o Function
      [] str = "PRODUCT FUNCTION" -> Product \o <<" ">> \o Function

\* str.contains(pat)
StrContains(str, pat) == Contains(Chars(str), Chars(pat))

Categories == {"ASSET", "ASSET FUNCTION", "PRODUCT", "PRODUCT FUNCTION"}

NodeTypes == {"LEAF", "TYPE", "SELECTION"}

Locations == {"", "1"}

\* a variant that makes a new node of the code and the location instead of
\* a clone
WithLocation_NewNode(n, location) ==
    [code |-> n.code, location |-> location, metadata |-> [category |-> "", node_type |-> ""]]

\* GmodNode::with_location
WithLocation(n, location) == [n EXCEPT !.location = location]

\* GmodNode::without_location
WithoutLocation(n) == [n EXCEPT !.location = ""]

\* Gmod::get_index
GetIndex(g, n) == g.index[n.code]

\* Gmod::root_node
RootNodeOf(g) == g.index[RootCode]

\* Gmod::get_parents
GetParents(g, n) == At(g.parents, g.index[n.code])

\* Gmod::get_children
GetChildren(g, n) == At(g.children, GetIndex(g, n))

\* a variant that accepts every child whose category contains "PRODUCT"
GetProductTypeFor_Contains(g, n) ==
    LET index == g.index[n.code]
        children == At(g.children, index)
    IN  IF Len(children) # 1 THEN None
        ELSE IF ~StrContains(n.metadata.category, "FUNCTION") THEN None
        ELSE LET child == At(g.nodes, At(children, 0))
             IN  IF ~StrContains(child.metadata.category, "PRODUCT")
                    \/ child.metadata.node_type # "TYPE"
                 THEN None
                 ELSE Some(At(children, 0))

\* Gmod::get_product_type_for
GetProductTypeFor(g, n) ==
    LET index == g.index[n.code]
        children == At(g.children, index)
    IN  IF Len(children) # 1 THEN None
        ELSE IF ~StrContains(n.metadata.category, "FUNCTION") THEN None
        ELSE LET child == At(g.nodes, At(children, 0))
             IN  IF child.metadata.category # "PRODUCT" \/ child.metadata.node_type # "TYPE"
                 THEN None
                 ELSE Some(At(children, 0))

\* a variant that asks the child's category to be "PRODUCT"
GetProductSelectionFor_Equals(g, n) ==
    LET index == g.index[n.code]
        children == At(g.children, index)
    IN  IF Len(children) # 1 THEN None
        ELSE IF ~StrContains(n.metadata.category, "FUNCTION") THEN None
        ELSE LET child == At(g.nodes, At(children, 0))
             IN  IF child.metadata.category # "PRODUCT"
                    \/ child.metadata.node_type # "SELECTION"
                 THEN None
                 ELSE Some(At(children, 0))

\* Gmod::get_product_selection_for
GetProductSelectionFor(g, n) ==
    LET index == g.index[n.code]
        children == At(g.children, index)
    IN  IF Len(children) # 1 THEN None
        ELSE IF ~StrContains(n.metadata.category, "FUNCTION") THEN None
        ELSE LET child == At(g.nodes, At(children, 0))
             IN  IF ~StrContains(child.metadata.category, "PRODUCT")
                    \/ child.metadata.node_type # "SELECTION"
                 THEN None
                 ELSE Some(At(children, 0))

\* the pairs <<i, j>> of positions with i < j, in the order of i and then j,
\* and after them the first pair once more
QueryPairs ==
    LET all == [k \in 1..(NumNodes * NumNodes) |->
                   <<((k - 1) \div NumNodes) + 1, ((k - 1) % NumNodes) + 1>>]
        ascending == SelectSeq(all, LAMBDA p : p[1] < p[2])
    IN  ascending \o <<ascending[1]>>

\* the pairs of QueryPairs, and the pair that leads from the second position
\* back to the first
SharedPairs == QueryPairs \o << <<2, 1>> >>

\* the elements of a sequence at the positions of a set, in their order
SubList(seq, positions) ==
    [k \in 1..Cardinality(positions) |->
        seq[CHOOSE i \in positions : Cardinality({j \in positions : j < i}) = k - 1]]

\* the definition structures the queries are made on: the first record is the
\* root, the other records have one category and one node type, the last
\* record may repeat the code of an earlier one, and the relations are at most
\* MaxQueryRel of SharedPairs, in their order
QueryDtos ==
    {[vis_release |-> VisVersionToString("3-4a"),
      items |-> [k \in 1..NumNodes |->
                    [code |-> IF k = NumNodes /\ repeat > 0 THEN CodeNames[repeat]
                              ELSE CodeNames[k],
                     category |-> IF k = 1 THEN root ELSE category,
                     node_type |-> IF k = 1 THEN "GROUP" ELSE node_type]],
      relations |-> [k \in 1..Cardinality(positions) |->
                        LET p == SubList(SharedPairs, positions)[k]
                        IN  <<CodeNames[p[1]], CodeNames[p[2]]>>]] :
        repeat \in 0..(NumNodes - 1),
        root \in {"ASSET", "ASSET FUNCTION"},
        category \in Categories,
        node_type \in NodeTypes,
        positions \in {ps \in SUBSET (1..Len(SharedPairs)) : Cardinality(ps) <= MaxQueryRel}}

\* Gmod::new(&dto)
New ==
    /\ gmod = NoGmod
    /\ gmod' = GmodNew(gmod_dto)
    /\ UNCHANGED <<pc, start, context, frames, ret, result, trace, visvars, queryvars, suspended>>

\* Gmod::root_node: the caller holds the node it points to;
\* self.index.get("VE").unwrap() aborts when the index has no entry for "VE"
RootNode ==
    /\ IsGmod(gmod)
    /\ node' = IF RootCode \in DOMAIN gmod.index THEN At(gmod.nodes, RootNodeOf(gmod))
               ELSE Panic
    /\ answer' = NoAnswer
    /\ UNCHANGED <<travvars, visvars, suspended, gmod_dto>>

\* the caller takes a node that the last query handed out
TakeNode ==
    /\ answer.op # "none"
    /\ \E at \in (IF answer.op \in {"get_parents", "get_children"} THEN Range(answer.value)
                  ELSE IF IsSome(answer.value) THEN {answer.value.some} ELSE {}) :
          node' = At(gmod.nodes, at)
    /\ answer' = NoAnswer
    /\ UNCHANGED <<travvars, visvars, suspended, gmod_dto>>

WithLocationCall(location) ==
    /\ node # NoNode
    /\ node' = WithLocation(node, location)
    /\ answer' = NoAnswer
    /\ UNCHANGED <<travvars, visvars, suspended, gmod_dto>>

WithoutLocationCall ==
    /\ node # NoNode
    /\ node' = WithoutLocation(node)
    /\ answer' = NoAnswer
    /\ UNCHANGED <<travvars, visvars, suspended, gmod_dto>>

\* the record of a query made with the node held
Answer(op, value) == [op |-> op, node |-> node, value |-> value]

GetParentsCall ==
    /\ node # NoNode
    /\ answer' = Answer("get_parents", GetParents(gmod, node))
    /\ UNCHANGED <<travvars, visvars, suspended, gmod_dto, node>>

GetChildrenCall ==
    /\ node # NoNode
    /\ answer' = Answer("get_children", GetChildren(gmod, node))
    /\ UNCHANGED <<travvars, visvars, suspended, gmod_dto, node>>

GetProductTypeForCall ==
    /\ node # NoNode
    /\ answer' = Answer("get_product_type_for", GetProductTypeFor(gmod, node))
    /\ UNCHANGED <<travvars, visvars, suspended, gmod_dto, node>>

GetProductSelectionForCall ==
    /\ node # NoNode
    /\ answer' = Answer("get_product_selection_for", GetProductSelectionFor(gmod, node))
    /\ UNCHANGED <<travvars, visvars, suspended, gmod_dto, node>>

QueryInit ==
    /\ gmod_dto \in QueryDtos
    /\ gmod = NoGmod
    /\ pc = "idle"
    /\ start = 0
    /\ context = [ids |-> <<>>, parents |-> <<>>]
    /\ frames = <<>>
    /\ ret = "none"
    /\ result = FALSE
    /\ trace = <<>>
    /\ VisStart
    /\ assets = <<>>
    /\ node = NoNode
    /\ answer = NoAnswer
    /\ suspended = NotStarted

QueryNext ==
    \/ New
    \/ RootNode
    \/ TakeNode
    \/ \E location \in Locations : WithLocationCall(location)
    \/ WithoutLocationCall
    \/ GetParentsCall
    \/ GetChildrenCall
    \/ GetProductTypeForCall
    \/ GetProductSelectionForCall

QuerySpec == QueryInit /\ [][QueryNext]_vars

(***************************************************************************)
(* Two threads that traverse one shared Gmod                               *)
(*                                                                         *)
(* traverse_from takes &self and keeps its TraversalContext and the calls  *)
(* of traverse_node on the stack of the calling thread.  One thread runs   *)
(* at a time; the locals of the other are in suspended, and a switch of    *)
(* the scheduler exchanges the two.                                        *)
(***************************************************************************)
\* the locals of the running thread
Locals ==
    [pc |-> pc, start |-> start, context |-> context, frames |-> frames,
     ret |-> ret, result |-> result, trace |-> trace]

\* a variant with one TraversalContext for all traversals of the Gmod
OwnContext_Shared(own, other) == other

\* the TraversalContext a thread goes on with: the one its traverse_from
\* call made, whatever the context of the other thread is
OwnContext(own, other) == own

\* the scheduler switches to the other thread
Switch ==
    /\ suspended' = Locals
    /\ pc' = suspended.pc
    /\ start' = suspended.start
    /\ context' = OwnContext(suspended.context, context)
    /\ frames' = suspended.frames
    /\ ret' = suspended.ret
    /\ result' = suspended.result
    /\ trace' = suspended.trace
    /\ UNCHANGED <<gmod, visvars, queryvars>>

\* the definition structures of the shared Gmod: at most MaxQueryRel of
\* SharedPairs, in their order
SharedDtos ==
    {[vis_release |-> VisVersionToString("3-4a"),
      items |-> [k \in 1..NumNodes |-> GmodNodeDto(CodeNames[k])],
      relations |-> [k \in 1..Cardinality(positions) |->
                        LET p == SubList(SharedPairs, positions)[k]
                        IN  <<CodeNames[p[1]], CodeNames[p[2]]>>]] :
        positions \in {ps \in SUBSET (1..Len(SharedPairs)) : Cardinality(ps) <= MaxQueryRel}}

SharedInit ==
    /\ gmod_dto \in SharedDtos
    /\ gmod = GmodNew(gmod_dto)
    /\ pc = "idle"
    /\ start = 0
    /\ context = [ids |-> <<>>, parents |-> <<>>]
    /\ frames = <<>>
    /\ ret = "none"
    /\ result = FALSE
    /\ trace = <<>>
    /\ VisStart
    /\ assets = <<>>
    /\ node = NoNode
    /\ answer = NoAnswer
    /\ suspended = NotStarted

SharedNext ==
    \/ Traverse
    \/ TraverseFrom
    \/ TraverseNodeEnter
    \/ TraverseNodeLoop
    \/ TraverseFromReturn
    \/ Switch

SharedSpec == SharedInit /\ [][SharedNext]_vars

\* Gmod::traverse_node run from its call to its return by a thread that is
\* alone, with a handler that gives the answers in turn: the value returned,
\* the context and the answers left over, and the handler invocations made
RECURSIVE TraverseNodeAlone(_, _, _, _)
RECURSIVE TraverseChildrenAlone(_, _, _, _, _, _)
TraverseNodeAlone(g, index, ctx, answers) ==
    IF ContextHas(ctx, index)
    THEN [result |-> "Continue", context |-> ctx, answers |-> answers, calls |-> <<>>]
    ELSE IF answers = <<>>
    THEN [result |-> "none", context |-> ctx, answers |-> answers, calls |-> <<>>]
    ELSE LET r == Head(answers)
             call == <<[parents |-> ctx.parents, node |-> index, result |-> r]>>
         IN  IF ReturnsEarly(r)
             THEN [result |-> r, context |-> ctx, answers |-> Tail(answers), calls |-> call]
             ELSE TraverseChildrenAlone(g, index, 0, ContextPush(ctx, index),
                                        Tail(answers), call)

\* the for loop of traverse_node over the children of index, from child k on
TraverseChildrenAlone(g, index, k, ctx, answers, calls) ==
    LET children == At(g.children, index)
    IN  IF ~HasNextChild(k, children)
        THEN [result |-> "Continue", context |-> ContextPop(ctx), answers |-> answers,
              calls |-> calls]
        ELSE LET child == TraverseNodeAlone(g, At(children, k), ctx, answers)
             IN  IF child.result = "none" \/ ChildStops(child.result)
                 THEN [result |-> child.result, context |-> child.context,
                       answers |-> child.answers, calls |-> calls \o child.calls]
                 ELSE TraverseChildrenAlone(g, index, k + 1, child.context, child.answers,
                                            calls \o child.calls)

\* Gmod::traverse_from run alone
TraverseFromAlone(g, index, answers) ==
    LET run == TraverseNodeAlone(g, index, [ids |-> <<>>, parents |-> <<>>], answers)
    IN  [result |-> TraverseFromResult(run.result), answers |-> run.answers,
         calls |-> run.calls, returned |-> run.result # "none"]

(***************************************************************************)
(* Graph notions the traversal properties are stated with.  They are       *)
(* defined on the children lists alone, independently of traverse_node.    *)
(***************************************************************************)
Indices == 0..(Len(gmod.nodes) - 1)

ChildrenOf(n) == At(gmod.children, n)

IsEdge(p, c) == c \in Range(ChildrenOf(p))

\* number of entries of children[p] that are c (parallel edges of p to c)
Multiplicity(p, c) == Cardinality({j \in 1..Len(ChildrenOf(p)) : ChildrenOf(p)[j] = c})

\* nodes reachable from the nodes of S along children edges
RECURSIVE ReachableFrom(_)
ReachableFrom(S) ==
    LET more == S \cup {c \in Indices : \E p \in S : IsEdge(p, c)}
    IN  IF more = S THEN S ELSE ReachableFrom(more)

\* nodes reachable from s along children edges without passing through n
ReachableAvoiding(s, n) ==
    LET RECURSIVE Grow(_)
        Grow(S) ==
            LET more == S \cup {c \in Indices \ {n} : \E p \in S : IsEdge(p, c)}
            IN  IF more = S THEN S ELSE Grow(more)
    IN  IF s = n THEN {} ELSE Grow({s})

\* the simple paths (sequences of distinct nodes joined by children edges)
\* that extend the paths of P
RECURSIVE ExtendPaths(_)
ExtendPaths(P) ==
    LET more == P \cup {Append(q[1], q[2]) :
                    q \in {e \in P \X Indices : IsEdge(Last(e[1]), e[2]) /\ e[2] \notin Range(e[1])}}
    IN  IF more = P THEN P ELSE ExtendPaths(more)

SimplePathsFrom(s) == ExtendPaths({<<s>>})

\* simple paths (as node sequences) from s to n along children edges
SimplePaths(s, n) == {q \in SimplePathsFrom(s) : Last(q) = n}

RECURSIVE EdgeProduct(_, _)
EdgeProduct(q, k) ==
    IF k >= Len(q) THEN 1
    ELSE Multiplicity(q[k], q[k + 1]) * EdgeProduct(q, k + 1)

\* sum over the node sequences of S of the number of edge sequences of each
RECURSIVE SumEdgePaths(_)
SumEdgePaths(S) ==
    IF S = {} THEN 0
    ELSE LET q == CHOOSE y \in S : TRUE
         IN  EdgeProduct(q, 1) + SumEdgePaths(S \ {q})

\* number of simple paths from s to n, a path being a sequence of edges
\* (two entries of one children list are two edges)
NumSimplePaths(s, n) == SumEdgePaths(SimplePaths(s, n))

\* number of nodes of the longest simple path that starts at n and avoids
\* the nodes of seen
RECURSIVE LongestAvoiding(_, _)
LongestAvoiding(n, seen) ==
    LET next == Range(ChildrenOf(n)) \ (seen \cup {n})
        lens == {LongestAvoiding(c, seen \cup {n}) : c \in next} \cup {0}
    IN  1 + (CHOOSE m \in lens : \A l \in lens : l <= m)

\* number of nodes of the longest simple path that starts at s
LongestSimplePath(s) == LongestAvoiding(s, {})

\* history of the running call
Visited == {trace[k].node : k \in 1..Len(trace)}

Visits(n) == {k \in 1..Len(trace) : trace[k].node = n}

Answered(r) == {k \in 1..Len(trace) : trace[k].result = r}

Done == pc = "done"

AllContinue == \A k \in 1..Len(trace) : trace[k].result = "Continue"

IsPrefix(a, b) == Len(a) <= Len(b) /\ SubSeq(b, 1, Len(a)) = a

(***************************************************************************)
(* Claims about the traversal                                              *)
(***************************************************************************)

\* C1: traverse_from (and traverse) returns true if and only if no handler
\* invocation of the call returned Stop; in particular it returns true when
\* some invocation returned SkipSubtree and none returned Stop, the start
\* node's invocation included.
C1_ReturnsTrueIffNoStop ==
    Done => (result = TRUE <=> Answered("Stop") = {})

\* C2: once a handler invocation returns Stop, the handler is never invoked
\* again in that call, at any recursion level, and the call returns false.
C2_StopShortCircuits ==
    /\ \A k \in Answered("Stop") : k = Len(trace)
    /\ (Done /\ Answered("Stop") # {}) => result = FALSE

\* a finished call that was stopped two levels below the start node, in the
\* subtree of the start node's first child, while the start node had a further
\* child to go
C2_Witness ==
    /\ Done
    /\ trace # <<>>
    /\ Last(trace).result = "Stop"
    /\ Len(Last(trace).parents) = 2
    /\ Last(trace).route[1] = 0
    /\ Len(ChildrenOf(start)) >= 2
    /\ At(ChildrenOf(start), 1) # start

\* the children of the visit with route q that the loop does not skip: the
\* positions whose child is not on the active path (parents plus the node)
EligiblePositions(k) ==
    LET n == trace[k].node
    IN  {j \in 0..(Len(ChildrenOf(n)) - 1) :
            At(ChildrenOf(n), j) \notin Range(trace[k].parents) \cup {n}}

\* the visit made through position j of the children of the visit with route q
VisitsAt(q, j) == {m \in 1..Len(trace) : trace[m].route = Append(q, j)}

\* C3: if the handler returns SkipSubtree for a visit of node N, no child of N
\* is visited as part of that visit; a node that every path from the start
\* node reaches only through N is never visited when every visit of N was
\* answered SkipSubtree; and the loop over the parent's children goes on as
\* usual: the later siblings (those not on the active path) are visited after
\* it in edge order, all of them when the call completes without a Stop.
C3_SkipSubtree ==
    \A k \in Answered("SkipSubtree") :
        LET n == trace[k].node
            q == trace[k].route
        IN  \* no visit of a child of N follows as part of this visit
            /\ \A m \in 1..Len(trace) :
                   m > k => ~(IsPrefix(q, trace[m].route) /\ Len(trace[m].route) > Len(q))
            \* nodes behind N
            /\ (\A m \in Visits(n) : trace[m].result = "SkipSubtree")
                   => Visited \cap (Indices \ ({n} \cup ReachableAvoiding(start, n))) = {}
            \* the siblings after N under the same parent
            /\ q # <<>> =>
                 LET parentVisit == CHOOSE m \in 1..Len(trace) : trace[m].route = Front(q)
                     later == {j \in EligiblePositions(parentVisit) : j > Last(q)}
                 IN  /\ \A j \in later :
                            /\ Cardinality(VisitsAt(Front(q), j)) <= 1
                            /\ \A m \in VisitsAt(Front(q), j) :
                                   /\ m > k
                                   /\ trace[m].node = At(ChildrenOf(Last(trace[k].parents)), j)
                                   /\ trace[m].parents = trace[k].parents
                                   /\ \A i \in later : i < j =>
                                          \E l \in VisitsAt(Front(q), i) : l < m
                     /\ (Done /\ Answered("Stop") = {}) =>
                            \A j \in later : VisitsAt(Front(q), j) # {}

\* a finished call in which the first child of the start node was answered
\* SkipSubtree although it has a child that nothing else leads to, that child
\* was never visited, and the second entry of the start node's children was
\* visited after it
C3_Witness ==
    /\ Done
    /\ \E k \in Answered("SkipSubtree") :
          /\ trace[k].route = <<0>>
          /\ \E d \in Range(ChildrenOf(trace[k].node)) :
                 /\ d \notin {start, trace[k].node}
                 /\ d \notin ReachableAvoiding(start, trace[k].node)
                 /\ d \notin Visited
          /\ \E m \in VisitsAt(<<>>, 1) : m > k

\* some node reachable from s lies on a cycle of children edges
HasCycleFrom(s) ==
    \E n \in ReachableFrom({s}) : \E c \in Range(ChildrenOf(n)) : n \in ReachableFrom({c})

\* C4: a traversal started at the root whose handler returns Continue at
\* every visit invokes the handler at least once for every node reachable from
\* the root along children edges, and returns true (trees, diamonds, cycles).
C4_Completeness ==
    (Done /\ AllContinue /\ start = gmod.index[RootCode]) =>
        /\ result = TRUE
        /\ ReachableFrom({start}) \subseteq Visited

\* a finished all-Continue traversal from the root of a graph with a cycle in
\* which a node other than the root's children was reached
C4_Witness ==
    /\ Done
    /\ AllContinue
    /\ start = gmod.index[RootCode]
    /\ HasCycleFrom(start)
    /\ Cardinality(ReachableFrom({start})) >= 3
    /\ result = TRUE

\* C5: every traversal terminates, for every handler and every graph: a node
\* on the active path is neither visited again nor descended into, so the
\* active path holds no node twice and is never longer than the longest
\* simple path from the start node.
C5_ActivePathBounded ==
    /\ \A a, b \in 1..Len(context.parents) : a # b => context.parents[a] # context.parents[b]
    /\ \A k \in 1..Len(trace) : trace[k].node \notin Range(trace[k].parents)
    /\ pc = "running" =>
          LET longest == LongestSimplePath(start)
          IN  Len(context.parents) <= longest /\ Len(frames) <= longest + 1

C5_CycleSafety == []C5_ActivePathBounded /\ ((pc = "running") ~> Done)

\* a finished traversal of a graph with a self-loop and a back-edge to the
\* start node, in which the nodes on the cycle were visited
C5_Witness ==
    /\ Done
    /\ AllContinue
    /\ \E n \in Visited : IsEdge(n, n)
    /\ \E n \in Visited : n # start /\ IsEdge(n, start)

\* C6: cycle prevention is path-scoped: when the handler always returns
\* Continue, the number of handler invocations for a node N equals the number
\* of simple paths from the start node to N along children edges, so a node
\* with two parents is visited once per path that reaches it.
C6_VisitsPerSimplePath ==
    (Done /\ AllContinue) =>
        \A n \in Indices : Cardinality(Visits(n)) = NumSimplePaths(start, n)

\* a finished all-Continue traversal in which a node with two different
\* parents was invoked twice
C6_Witness ==
    /\ Done
    /\ AllContinue
    /\ \E n \in Indices :
          /\ Cardinality(Visits(n)) = 2
          /\ \E p1, p2 \in Indices \ {n} : p1 # p2 /\ IsEdge(p1, n) /\ IsEdge(p2, n)
                 /\ Multiplicity(p1, n) = 1 /\ Multiplicity(p2, n) = 1

\* C7: at every handler invocation the ancestor sequence passed to the handler
\* is the active path: empty when the visited node is the start node (also
\* when that is not the root), otherwise it starts with the start node, each
\* consecutive pair is a parent-to-child edge, and its last element is the
\* parent through which the visited node was reached.
C7_AncestorsAreActivePath ==
    \A k \in 1..Len(trace) :
        LET r == trace[k]
        IN  /\ r.parents = r.callers
            /\ (r.node = start) <=> (r.parents = <<>>)
            /\ r.parents # <<>> =>
                  /\ r.parents[1] = start
                  /\ \A a \in 1..Len(r.parents) - 1 :
                         At(ChildrenOf(r.parents[a]), r.route[a]) = r.parents[a + 1]
                  /\ At(ChildrenOf(Last(r.parents)), Last(r.route)) = r.node

\* a handler invocation two levels below a start node that is not the root,
\* after an earlier subtree was left again
C7_Witness ==
    /\ start # gmod.index[RootCode]
    /\ \E k \in 1..Len(trace) :
          /\ Len(trace[k].parents) = 2
          /\ \E m \in 1..k - 1 : Len(trace[m].parents) >= 1 /\ trace[m].result = "Continue"
                 /\ trace[m].route # SubSeq(trace[k].route, 1, Len(trace[m].route))

(***************************************************************************)
(* Notions the cache properties are stated with                            *)
(***************************************************************************)
\* the threads that are building a Gmod of a version
Builders(version) ==
    {t \in Threads : threads[t].pc = "init" /\ threads[t].version = version}

\* the instances built for a version by its flight-th build
Instances(version, flight) ==
    {k \in 1..Len(arcs) : arcs[k].version = version /\ arcs[k].flight = flight}

\* the seconds an entry has been stored for at a moment
Age(e, now) == now - e.stored

\* C8: single-flight build.  Calls of get_gmod for one version that find no
\* live entry while a build of that version is under way belong to that build
\* (they carry its number): at no time are two threads building the same
\* version, every waiting call has its builder, each build of a version
\* produces exactly one instance, and every call that has its value, the
\* builder's and the waiting calls' alike, has the one instance of its build.
C8_SingleFlight ==
    /\ \A v \in VisVersions : Cardinality(Builders(v)) <= 1
    /\ \A t \in Threads : threads[t].pc = "wait" =>
           \E u \in Builders(threads[t].version) : threads[u].flight = threads[t].flight
    /\ \A k \in 1..Len(arcs) : Instances(arcs[k].version, arcs[k].flight) = {k}
    /\ \A t \in Threads : threads[t].pc = "ready" =>
           Instances(threads[t].version, threads[t].flight) = {threads[t].value}
    /\ returned.kind # "none" =>
           Instances(returned.version, returned.flight) = {returned.value}

\* two calls for an uncached version overlapped: one built, the other waited
\* and has returned the instance of the only build
C8_Witness ==
    /\ returned.kind = "joined"
    /\ returned.found = NoEntry
    /\ arcs[returned.value].version = returned.version
    /\ Builds(returned.version) = 1
    /\ \A t \in Threads : threads[t].pc = "idle"

\* a step of a get_gmod call that finds a live entry: nothing is built, no
\* build begins, the cache is left as it is, and the entry's instance is returned
C9_HitStep ==
    \A t \in Threads, v \in VisVersions :
        (IsEntry(gmod_cache[v]) /\ Age(gmod_cache[v], clock) < TimeToLive /\ GetGmod(t, v)) =>
            /\ arcs' = arcs
            /\ threads' = threads
            /\ waiters' = waiters
            /\ gmod_cache' = gmod_cache
            /\ returned'.kind = "hit"
            /\ returned'.version = v
            /\ returned'.value = gmod_cache[v].value

\* a step that stores an entry is the return of the call that built its instance
C9_StoreStep ==
    \A v \in VisVersions :
        (IsEntry(gmod_cache'[v]) /\ gmod_cache'[v] # gmod_cache[v]) =>
            /\ returned'.kind = "built"
            /\ returned'.version = v
            /\ returned'.value = gmod_cache'[v].value

\* C9: a get_gmod call for a version that has a live, non-expired entry
\* performs no build and returns the instance the entry holds, which is the
\* instance the earlier call that stored the entry returned.
C9_LiveEntryIsReturned == [][C9_HitStep /\ C9_StoreStep]_vars

\* a call has returned the instance of an entry in the last second of its life
C9_Witness ==
    /\ returned.kind = "hit"
    /\ IsEntry(returned.found)
    /\ returned.value = returned.found.value
    /\ Age(returned.found, returned.at) = TimeToLive - 1
    /\ Builds(returned.version) = 1

\* a call never returns an entry stored more than the time to live ago
C10_NoStaleHit ==
    returned.kind = "hit" => Age(returned.found, returned.at) <= TimeToLive

\* a step of a get_gmod call that finds an entry stored more than the time
\* to live ago does what it does when there is no entry: it returns nothing
\* yet, and it begins a build unless a build of the version is under way
C10_ExpiredStep ==
    \A t \in Threads, v \in VisVersions :
        (IsEntry(gmod_cache[v]) /\ Age(gmod_cache[v], clock) > TimeToLive /\ GetGmod(t, v)) =>
            /\ returned' = returned
            /\ arcs' = arcs
            /\ threads'[t].pc = (IF Builders(v) = {} THEN "init" ELSE "wait")
            /\ threads'[t].version = v

\* the build of a call makes one new instance and stores it as of now
C10_BuildStep ==
    \A t \in Threads :
        Build(t) =>
            /\ Len(arcs') = Len(arcs) + 1
            /\ gmod_cache'[threads[t].version] = [value |-> Len(arcs'), stored |-> clock]
            /\ returned'.value = Len(arcs')

\* C10: time-to-live expiry.  An entry is never returned once more than 60
\* seconds have passed since it was stored; the first get_gmod for the version
\* after that behaves as a cold miss, one build runs for it (never two at a
\* time), and its result is stored with an expiry counted from the new store.
C10_TimeToLive ==
    /\ [](C10_NoStaleHit /\ \A v \in VisVersions : Cardinality(Builders(v)) <= 1)
    /\ [][C10_ExpiredStep /\ C10_BuildStep]_vars

\* a call found an entry stored more than 60 seconds before, built a new
\* instance and stored it; the new entry counts its life from that store
C10_Witness ==
    /\ returned.kind = "built"
    /\ IsEntry(returned.found)
    /\ Age(returned.found, returned.at) > TimeToLive
    /\ returned.value # returned.found.value
    /\ gmod_cache[returned.version] = [value |-> returned.value, stored |-> returned.at]
    /\ Builds(returned.version) = 2

\* the versions that have an entry in the cache
Entries == {v \in VisVersions : IsEntry(gmod_cache[v])}

\* the entries that a step drops although their time to live has not passed
Dropped ==
    {v \in Entries : ~IsEntry(gmod_cache'[v]) /\ Age(gmod_cache[v], clock) < TimeToLive}

\* the n least recently used of the entries whose time to live has not passed
LeastRecentlyUsed(n) ==
    LET live == SelectSeq(lru, LAMBDA v : Age(gmod_cache[v], clock) < TimeToLive)
    IN  {live[k] : k \in 1..n}

\* C11 as stated: once the housekeeping of the cache has run at most 2
\* entries are retained, and the entries dropped to keep that bound are the
\* least recently used ones.
C11_DropsLeastRecentlyUsed ==
    [][ /\ RunPendingTasks => Cardinality(Entries') <= MaxCapacity
        /\ Dropped = LeastRecentlyUsed(Cardinality(Dropped)) ]_vars

\* C11, amended: the housekeeping of the cache leaves at most 2 entries, it
\* drops unexpired entries only when there are more than 2 and then no more
\* than needed, the entries it keeps are left as they were, and every other
\* step adds at most the entry of the version it builds.  Which entry is
\* dropped is the cache's choice: it need not be the least recently used one.
C11_BoundedCapacity ==
    [][ /\ RunPendingTasks =>
              /\ Cardinality(Entries') <= MaxCapacity
              /\ Dropped # {} => Cardinality(Entries') = MaxCapacity
              /\ \A v \in Entries' : gmod_cache'[v] = gmod_cache[v]
        /\ ~RunPendingTasks =>
              /\ Dropped = {}
              /\ Cardinality(Entries' \ Entries) <= 1 ]_vars

\* three versions were built one after the other, the housekeeping has run,
\* and the entry it dropped is the one of the last call, the most recently used
C11_Witness ==
    /\ \A v \in VisVersions : Builds(v) = 1
    /\ Cardinality(Entries) = MaxCapacity
    /\ returned.kind = "built"
    /\ returned.version \notin Entries
    /\ returned.at = clock

\* the error of the record source for a version, if it cannot supply it
LoadError(version) == GetGmodDto(assets, VisVersionToString(version))

\* C12: when the record source cannot supply a definition for the requested
\* version (resource not found, read error, deserialization error), the call
\* of get_gmod ends by handing its caller a typed load error that names the
\* cause: it does not end in a panic, and it returns no Gmod.
C12_TypedLoadError ==
    (returned.kind # "none" /\ IsErr(LoadError(returned.version))) =>
        /\ returned.kind = "error"
        /\ returned.cause = LoadError(returned.version).error

\* for each folder a run can find, the versions whose build fails
FailingIn == [files \in AssetLists |-> {v \in VisVersions : IsPanic(Closure(files, v))}]

\* the versions whose build fails
Failing == FailingIn[assets]

\* the step of a build that fails: nothing is stored and no instance is made,
\* the entries are as they were, no build of the version is under way any
\* more, and every call that was waiting for the build is back at the start
\* of get_with with no value
C13_FailStep ==
    \A t \in Threads :
        (threads[t].pc = "init" /\ threads'[t].pc = "idle" /\ BuildPanics(t)) =>
            /\ gmod_cache' = gmod_cache
            /\ arcs' = arcs
            /\ lru' = lru
            /\ ~IsEntry(gmod_cache'[threads[t].version])
            /\ waiters'[threads[t].version] = 0
            /\ \A u \in Threads :
                   (threads[u].pc = "wait" /\ threads[u].version = threads[t].version) =>
                       threads'[u].pc = "retry" /\ threads'[u].value = 0

\* the step of a call of get_gmod for a version whose build fails, be it a
\* later call or a call that was waiting for the failed build: it begins a
\* new build, or waits for the one that another call has begun since
C13_LaterStep ==
    \A t \in Threads :
        (threads[t].pc \in {"idle", "retry"} /\ threads'[t].pc \in {"init", "wait"}) =>
            LET v == threads'[t].version
            IN  (/\ v \in Failing
                 /\ \/ GetGmod(t, v)
                    \/ (threads[t].pc = "retry" /\ threads[t].version = v /\ Retry(t))) =>
                    /\ threads'[t].pc = (IF Builders(v) = {} THEN "init" ELSE "wait")
                    /\ returned' = returned

\* the versions that have an entry or an instance, or of which a call holds
\* or has returned a Gmod
Supplied ==
    {v \in VisVersions :
        \/ IsEntry(gmod_cache[v])
        \/ Builds(v) > 0
        \/ \E t \in Threads : threads[t].pc = "ready" /\ threads[t].version = v
        \/ returned.kind \in {"hit", "built", "joined"} /\ returned.version = v}

\* C13: a failed build leaves the cache unchanged.  No entry and no instance
\* ever exists for a version whose build fails and no call holds or returns a
\* Gmod of it, the failing step touches no entry, the calls waiting for the
\* failed build receive nothing from it, and a later call for the version
\* starts a new build.
C13_FailedBuildLeavesCache ==
    /\ [](Supplied \cap Failing = {})
    /\ [][C13_FailStep /\ C13_LaterStep]_vars

\* a build failed while another version had its entry and a call was waiting:
\* the entry is as it was, and the call that waited has begun a new build
C13_Witness ==
    /\ returned.kind = "panic"
    /\ returned.version \in Failing
    /\ \E v \in VisVersions \ Failing : IsEntry(gmod_cache[v])
    /\ \E t \in Threads : threads[t].pc = "init" /\ threads[t].version = returned.version

\* C19 as stated: the Gmod that get_gmod(v) returns reports version() = v,
\* for every version v of the enumeration and whatever other resources are
\* embedded: every instance built for v has version v, and every call that
\* returns a Gmod returns one of the version it asked for.
C19_VersionOfGmod ==
    /\ \A k \in 1..Len(arcs) : arcs[k].gmod.version = arcs[k].version
    /\ returned.kind \in {"hit", "built", "joined"} =>
           arcs[returned.value].gmod.version = returned.version

\* the first gmod file of the folder that is named after a version
ChosenFile(v) ==
    LET named_v == {k \in 1..Len(assets) : assets[k].kind = "gmod" /\ assets[k].version = v}
    IN  assets[CHOOSE k \in named_v : \A j \in named_v : k <= j]

\* the version that the content of a file is tagged with
TaggedVersion(file) == file.tag

\* C19 amended: the Gmod that get_gmod(v) returns is built from the first
\* resource whose name contains "gmod" and the string of v, whatever other
\* resources are embedded, and reports the version that the visRelease of
\* that resource names; it reports v when the release tag of the resource
\* is the release in its name.
C19_VersionOfChosenFile ==
    /\ \A k \in 1..Len(arcs) :
          /\ arcs[k].gmod.version = TaggedVersion(ChosenFile(arcs[k].version))
          /\ ChosenFile(arcs[k].version).payload = "gmod" =>
                 arcs[k].gmod.version = arcs[k].version
    /\ returned.kind \in {"hit", "built", "joined"} =>
          /\ arcs[returned.value].version = returned.version
          /\ arcs[returned.value].gmod.version = TaggedVersion(ChosenFile(returned.version))

\* a call has returned the Gmod of a version whose file comes after the
\* gmod file of another version and is tagged with another release than its
\* name: the Gmod reports the version of the tag
C19_Witness ==
    /\ returned.kind = "built"
    /\ ChosenFile(returned.version).payload = "retagged"
    /\ arcs[returned.value].gmod.version # returned.version
    /\ \E i, k \in 1..Len(assets) :
          /\ i < k
          /\ Contains(FilePath(assets[i]), GmodPattern)
          /\ ~Contains(FilePath(assets[i]), VisVersionToString(returned.version))
          /\ assets[k] = ChosenFile(returned.version)
          /\ Contains(FilePath(assets[k]), GmodPattern)

(***************************************************************************)
(* Claims about the construction and the queries of a Gmod                 *)
(***************************************************************************)
\* the arena positions that the references of the Gmod point to: the ones
\* the index names
Live == {gmod.index[code] : code \in DOMAIN gmod.index}

\* the arena position of the node that the value n is, or is a copy of
PositionOf(n) == gmod.index[n.code]

\* C14: adjacency symmetry after construction.  For every pair of nodes p and
\* c of a Gmod built by Gmod::new, c is among get_children(p) if and only if
\* p is among get_parents(c): whenever get_children has answered for p the
\* nodes it hands out are exactly those whose get_parents hands out p, and
\* whenever get_parents has answered for c the nodes it hands out are exactly
\* those whose get_children hands out c.
C14_AdjacencySymmetry ==
    /\ answer.op = "get_children" =>
           \A c \in Live :
               c \in Range(answer.value) <=>
                   PositionOf(answer.node) \in Range(GetParents(gmod, At(gmod.nodes, c)))
    /\ answer.op = "get_parents" =>
           \A p \in Live :
               p \in Range(answer.value) <=>
                   PositionOf(answer.node) \in Range(GetChildren(gmod, At(gmod.nodes, p)))

\* get_parents has handed out the parent of a node in a Gmod whose
\* definition structure repeats a code, so that one position of nodes is
\* not the one its code is looked up at
C14_Witness ==
    /\ answer.op = "get_parents"
    /\ answer.value # <<>>
    /\ Cardinality(DOMAIN gmod.index) < Len(gmod.nodes)

\* the codes of the records of a definition structure are pairwise distinct
DistinctCodes(items) ==
    \A i, j \in 1..Len(items) : items[i].code = items[j].code => i = j

\* C15 as stated: index invariant after construction.  In every Gmod built by
\* Gmod::new the index is a bijection between node codes and arena positions:
\* index[nodes[i].code] = i for every position i of nodes, and the index has
\* as many entries as nodes.
C15_IndexBijection ==
    IsGmod(gmod) =>
        /\ \A i \in 0..(Len(gmod.nodes) - 1) : gmod.index[At(gmod.nodes, i).code] = i
        /\ Cardinality(DOMAIN gmod.index) = Len(gmod.nodes)

\* C15 amended: in every Gmod built by Gmod::new the index has an entry for
\* each code of nodes and for nothing else, and maps a code to the last
\* position of nodes that holds it; when the codes of the definition
\* structure are pairwise distinct, index[nodes[i].code] = i for every
\* position i and the index has as many entries as nodes.
C15_IndexOfLastPosition ==
    IsGmod(gmod) =>
        /\ Len(gmod.nodes) = Len(gmod_dto.items)
        /\ DOMAIN gmod.index = {At(gmod.nodes, i).code : i \in 0..(Len(gmod.nodes) - 1)}
        /\ \A code \in DOMAIN gmod.index :
               /\ gmod.index[code] \in 0..(Len(gmod.nodes) - 1)
               /\ At(gmod.nodes, gmod.index[code]).code = code
               /\ \A i \in 0..(Len(gmod.nodes) - 1) :
                      At(gmod.nodes, i).code = code => i <= gmod.index[code]
        /\ DistinctCodes(gmod_dto.items) =>
               /\ \A i \in 0..(Len(gmod.nodes) - 1) : gmod.index[At(gmod.nodes, i).code] = i
               /\ Cardinality(DOMAIN gmod.index) = Len(gmod.nodes)

\* a Gmod was built from a definition structure of distinct codes that
\* relates them, and a node other than the root was looked up in it
C15_Witness ==
    /\ IsGmod(gmod)
    /\ DistinctCodes(gmod_dto.items)
    /\ gmod_dto.relations # <<>>
    /\ answer.op # "none"
    /\ PositionOf(answer.node) > 0

\* the categories that contain "FUNCTION", and those that contain "PRODUCT"
FunctionCategories == {"ASSET FUNCTION", "PRODUCT FUNCTION"}

ProductCategories == {"PRODUCT", "PRODUCT FUNCTION"}

\* the children that get_children hands out for the value n
ChildrenHandedOut(n) == At(gmod.children, PositionOf(n))

\* the value n has exactly one child, and the child is of one of the
\* categories and of the node type
HasOnlyChildOf(n, categories, node_type) ==
    /\ Len(ChildrenHandedOut(n)) = 1
    /\ At(gmod.nodes, At(ChildrenHandedOut(n), 0)).metadata.category \in categories
    /\ At(gmod.nodes, At(ChildrenHandedOut(n), 0)).metadata.node_type = node_type

\* C16: get_product_type_for(node) returns the child of node exactly when
\* node has exactly one child, node's category contains "FUNCTION", the
\* child's category equals "PRODUCT" and the child's node type equals "TYPE";
\* in every other case it returns nothing.
C16_ProductTypeFor ==
    answer.op = "get_product_type_for" =>
        answer.value =
            IF /\ answer.node.metadata.category \in FunctionCategories
               /\ HasOnlyChildOf(answer.node, {"PRODUCT"}, "TYPE")
            THEN Some(At(ChildrenHandedOut(answer.node), 0))
            ELSE None

\* get_product_type_for has returned the only child of a node
C16_Witness ==
    /\ answer.op = "get_product_type_for"
    /\ IsSome(answer.value)
    /\ At(gmod.nodes, answer.value.some).metadata.category = "PRODUCT"
    /\ answer.node.metadata.category \in FunctionCategories

\* C17: get_product_selection_for(node) returns the child of node exactly when
\* node has exactly one child, node's category contains "FUNCTION", the
\* child's category contains "PRODUCT" and the child's node type equals
\* "SELECTION"; in every other case it returns nothing.  So for a child of
\* category "PRODUCT" and type "SELECTION" it returns the child while
\* get_product_type_for returns nothing.
C17_ProductSelectionFor ==
    answer.op = "get_product_selection_for" =>
        /\ answer.value =
               IF /\ answer.node.metadata.category \in FunctionCategories
                  /\ HasOnlyChildOf(answer.node, ProductCategories, "SELECTION")
               THEN Some(At(ChildrenHandedOut(answer.node), 0))
               ELSE None
        /\ (/\ answer.node.metadata.category \in FunctionCategories
            /\ HasOnlyChildOf(answer.node, {"PRODUCT"}, "SELECTION")) =>
               /\ answer.value = Some(At(ChildrenHandedOut(answer.node), 0))
               /\ GetProductTypeFor(gmod, answer.node) = None

\* get_product_selection_for has returned the only child of a node, a child
\* of category "PRODUCT" and type "SELECTION"
C17_Witness ==
    /\ answer.op = "get_product_selection_for"
    /\ IsSome(answer.value)
    /\ At(gmod.nodes, answer.value.some).metadata.category = "PRODUCT"
    /\ At(gmod.nodes, answer.value.some).metadata.node_type = "SELECTION"

\* the node of the arena that the value n is, or is a copy of
StoredNode(n) == At(gmod.nodes, PositionOf(n))

\* what a query answers for a value
QueryOf(op, n) ==
    CASE op = "get_parents" -> GetParents(gmod, n)
      [] op = "get_children" -> GetChildren(gmod, n)
      [] op = "get_product_type_for" -> GetProductTypeFor(gmod, n)
      [] op = "get_product_selection_for" -> GetProductSelectionFor(gmod, n)

\* a step of with_location or without_location gives the caller a value with
\* the location asked for and the code and metadata it had, and leaves the
\* Gmod as it was
C18_CopyStep ==
    /\ \A location \in Locations :
           (node # NoNode /\ WithLocationCall(location)) =>
               /\ node'.location = location
               /\ node'.code = node.code
               /\ node'.metadata = node.metadata
               /\ gmod' = gmod
    /\ (node # NoNode /\ WithoutLocationCall) =>
           /\ node'.location = ""
           /\ node'.code = node.code
           /\ node'.metadata = node.metadata
           /\ gmod' = gmod

\* C18: with_location and without_location produce copies and change nothing
\* else.  with_location(n, l) returns a value with location l and the code
\* and metadata of n, every node stored in the Gmod keeps its empty
\* location, the value a caller holds has the code and metadata of the
\* stored node it is a copy of, and every lookup, adjacency and product
\* type or selection query gives the same result for the copy as for that
\* node.
C18_CopiesChangeNothingElse ==
    /\ [](IsGmod(gmod) =>
             /\ \A i \in 0..(Len(gmod.nodes) - 1) : At(gmod.nodes, i).location = ""
             /\ node # NoNode =>
                    /\ GetIndex(gmod, node) = GetIndex(gmod, StoredNode(node))
                    /\ node.metadata = StoredNode(node).metadata
             /\ answer.op # "none" =>
                    answer.value = QueryOf(answer.op, StoredNode(answer.node)))
    /\ [][C18_CopyStep]_vars

\* a query has handed out a node for a copy that has a location
C18_Witness ==
    /\ answer.op = "get_product_selection_for"
    /\ answer.node.location = "1"
    /\ IsSome(answer.value)
    /\ At(gmod.nodes, answer.value.some).location = ""

(***************************************************************************)
(* Claims about concurrent traversals                                      *)
(***************************************************************************)
\* the handler invocations of a traversal as the handler sees them, and the
\* answers it gave
Invocations(t) ==
    [k \in 1..Len(t) |-> [parents |-> t[k].parents, node |-> t[k].node, result |-> t[k].result]]

Answers(t) == [k \in 1..Len(t) |-> t[k].result]

\* a traversal has made the handler invocations that it makes when it runs
\* alone and the handler answers the same, and when it has returned it has
\* returned what it returns alone
AsAlone(l) ==
    l.pc # "idle" =>
        LET alone == TraverseFromAlone(gmod, l.start, Answers(l.trace))
        IN  /\ alone.calls = Invocations(l.trace)
            /\ alone.answers = <<>>
            /\ l.pc = "done" => (alone.returned /\ alone.result = l.result)

\* a step leaves the Gmod as it is, and either leaves the locals of the
\* thread that is not running as they are or exchanges the two threads
C20_Step ==
    /\ gmod' = gmod
    /\ \/ suspended' = suspended
       \/ (suspended' = Locals /\ Locals' = suspended)

\* C20: traversal is a pure read and concurrent traversals are independent.
\* For any interleaving of two traversals running on the same shared Gmod,
\* each traversal's sequence of handler invocations and its return value are
\* the same as when it runs alone, and the Gmod's nodes, index, children and
\* parents are unchanged afterwards.
C20_IndependentTraversals ==
    /\ [](AsAlone(Locals) /\ AsAlone(suspended))
    /\ [][C20_Step]_vars

\* a traversal has returned after it visited a node that is on the active
\* path of the other traversal, which is still running
C20_Witness ==
    /\ pc = "done"
    /\ suspended.pc = "running"
    /\ Len(suspended.trace) >= 2
    /\ \E k \in 1..Len(trace) :
          /\ k >= 2
          /\ trace[k].node \in Range(suspended.context.ids)

(***************************************************************************)
(* Claims about the shape of a constructed Gmod                            *)
(***************************************************************************)
\* the codes that the relations of a definition structure lead to from the
\* codes of S
RECURSIVE RelatedFrom(_, _)
RelatedFrom(relations, S) ==
    LET more == S \cup {r[2] : r \in {q \in Range(relations) : q[1] \in S}}
    IN  IF more = S THEN S ELSE RelatedFrom(relations, more)

\* no relation of the definition structure gives the root a parent, and its
\* relations lead from the root to the code of every record
RootedRelations(d) ==
    /\ \A r \in Range(d.relations) : r[2] # RootCode
    /\ \A k \in 1..Len(d.items) : d.items[k].code \in RelatedFrom(d.relations, {RootCode})

\* C21 as stated: in every Gmod produced by Gmod::new, the root node (code
\* "VE") has zero parents and every other node is reachable from the root by
\* at least one path of children edges.
C21_RootedAndConnected ==
    IsGmod(gmod) =>
        /\ GetParents(gmod, At(gmod.nodes, RootNodeOf(gmod))) = <<>>
        /\ Indices \subseteq ReachableFrom({RootNodeOf(gmod)})

\* C21 amended: Gmod::new gives the Gmod the shape of the relations of the
\* definition structure and nothing more.  The parents of the root node are
\* the nodes of the codes that a relation gives "VE" for parent, a node that
\* the index names is reachable from the root by children edges exactly when
\* the relations lead from "VE" to its code, and no other position of nodes
\* is reachable; so the root has zero parents and every other node is
\* reachable from it when the codes are pairwise distinct, no relation has
\* "VE" for child and the relations lead from "VE" to every code.
C21_ShapeOfRelations ==
    IsGmod(gmod) =>
        /\ Range(GetParents(gmod, At(gmod.nodes, RootNodeOf(gmod)))) =
               {gmod.index[r[1]] : r \in {q \in Range(gmod_dto.relations) : q[2] = RootCode}}
        /\ ReachableFrom({RootNodeOf(gmod)}) =
               {gmod.index[code] : code \in RelatedFrom(gmod_dto.relations, {RootCode})}
        /\ (DistinctCodes(gmod_dto.items) /\ RootedRelations(gmod_dto)) =>
               /\ GetParents(gmod, At(gmod.nodes, RootNodeOf(gmod))) = <<>>
               /\ Indices \subseteq ReachableFrom({RootNodeOf(gmod)})

\* a Gmod was built from a definition structure whose relations lead from
\* the root to every code, one of them by way of another
C21_Witness ==
    /\ IsGmod(gmod)
    /\ DistinctCodes(gmod_dto.items)
    /\ RootedRelations(gmod_dto)
    /\ \E r \in Range(gmod_dto.relations) : r[1] # RootCode
    /\ answer.op = "get_parents"
    /\ answer.value # <<>>

\* the positions of the codes a relation may name: one more than there are
\* node records
FatalPairs ==
    LET all == [k \in 1..((NumNodes + 1) * (NumNodes + 1)) |->
                   <<((k - 1) \div (NumNodes + 1)) + 1, ((k - 1) % (NumNodes + 1)) + 1>>]
    IN  SelectSeq(all, LAMBDA p : p[1] # p[2])

\* definition structures that may be inconsistent: the codes of the records
\* are the first NumNodes codes or the NumNodes codes after "VE", and the
\* relations are at most MaxQueryRel of FatalPairs, so that a relation may name
\* a code that no record has
FatalDtos ==
    {[vis_release |-> VisVersionToString("3-4a"),
      items |-> [k \in 1..NumNodes |-> GmodNodeDto(CodeNames[k + shift])],
      relations |-> [k \in 1..Cardinality(positions) |->
                        LET p == SubList(FatalPairs, positions)[k]
                        IN  <<CodeNames[p[1]], CodeNames[p[2]]>>]] :
        shift \in {0, 1},
        positions \in {ps \in SUBSET (1..Len(FatalPairs)) : Cardinality(ps) <= MaxQueryRel}}

FatalInit ==
    /\ gmod_dto \in FatalDtos
    /\ gmod = NoGmod
    /\ pc = "idle"
    /\ start = 0
    /\ context = [ids |-> <<>>, parents |-> <<>>]
    /\ frames = <<>>
    /\ ret = "none"
    /\ result = FALSE
    /\ trace = <<>>
    /\ VisStart
    /\ assets = <<>>
    /\ node = NoNode
    /\ answer = NoAnswer
    /\ suspended = NotStarted

FatalNext ==
    \/ New
    \/ RootNode
    \/ Traverse

FatalSpec == FatalInit /\ [][FatalNext]_vars

\* the codes of the node records of a definition structure
CodesOf(d) == {d.items[k].code : k \in 1..Len(d.items)}

\* a relation of the definition structure names a code that no record has
Unresolved(d) == \E r \in Range(d.relations) : r[1] \notin CodesOf(d) \/ r[2] \notin CodesOf(d)

\* no node of the Gmod has the code "VE"
Rootless(g) == \A k \in 1..Len(g.nodes) : g.nodes[k].code # RootCode

\* C22: structural inconsistencies are fatal.  Gmod::new aborts without
\* producing a Gmod when a relation names a parent or child code that is not
\* among the node records, so every arena index stored in children or parents
\* of a constructed Gmod is a position of nodes; and root_node and traverse
\* on a Gmod without a node of code "VE" abort instead of returning a result.
C22_FatalInconsistencies ==
    /\ (gmod # NoGmod /\ Unresolved(gmod_dto)) => IsPanic(gmod)
    /\ IsGmod(gmod) =>
          /\ \A k \in 1..Len(gmod.nodes) :
                 Range(gmod.children[k]) \cup Range(gmod.parents[k]) \subseteq Indices
          /\ Rootless(gmod) => /\ node \in {NoNode, Panic}
                               /\ pc \in {"idle", "panicked"}
                               /\ frames = <<>>
                               /\ result = FALSE

\* root_node and traverse were called on a Gmod that has relations and no
\* node of code "VE", and both aborted
C22_Witness ==
    /\ IsGmod(gmod)
    /\ Rootless(gmod)
    /\ gmod_dto.relations # <<>>
    /\ node = Panic
    /\ pc = "panicked"

\* Gmod::new aborted on a relation whose child code no record has
C22_NewAborted ==
    /\ IsPanic(gmod)
    /\ \E r \in Range(gmod_dto.relations) : r[1] \in CodesOf(gmod_dto) /\ r[2] \notin CodesOf(gmod_dto)

(***************************************************************************)
(* Claims about the order of the handler invocations                       *)
(***************************************************************************)
\* the arena position that the index gives a code: that of the last node
\* record that has the code
PositionOfCode(d, code) ==
    LET records == {k \in 1..Len(d.items) : d.items[k].code = code}
    IN  (CHOOSE k \in records : \A j \in records : j <= k) - 1

\* the children of a node in the order in which the relation list names
\* them: the children of the relations whose parent code the index resolves
\* to the node
ChildrenInRelationOrder(d, n) ==
    LET edges == SelectSeq(d.relations, LAMBDA r : PositionOfCode(d, r[1]) = n)
    IN  [k \in 1..Len(edges) |-> PositionOfCode(d, edges[k][2])]

\* the answers of a traversal are those of a handler whose answer depends on
\* the ancestors and the node only
AnswersByArguments(t) ==
    \A j, k \in 1..Len(t) :
        (t[j].parents = t[k].parents /\ t[j].node = t[k].node) => t[j].result = t[k].result

\* the answer of the handler of a traversal to ancestors and a node; where
\* the traversal has not asked, the handler is taken to answer Continue
AnswerOf(t, ancestors, n) ==
    IF \E k \in 1..Len(t) : t[k].parents = ancestors /\ t[k].node = n
    THEN t[CHOOSE k \in 1..Len(t) : t[k].parents = ancestors /\ t[k].node = n].result
    ELSE "Continue"

\* the reference recursion: visit the node, then, unless the answer was
\* SkipSubtree or Stop, go through its children in the order of the relation
\* list, passing over the children that are on the active path; Stop ends the
\* whole recursion
RECURSIVE Preorder(_, _, _, _)
RECURSIVE PreorderChildren(_, _, _, _, _)
Preorder(d, t, path, n) ==
    IF n \in Range(path) THEN [calls |-> <<>>, stopped |-> FALSE]
    ELSE LET a == AnswerOf(t, path, n)
             call == [parents |-> path, node |-> n, result |-> a]
         IN  IF a = "Stop" THEN [calls |-> <<call>>, stopped |-> TRUE]
             ELSE IF a = "SkipSubtree" THEN [calls |-> <<call>>, stopped |-> FALSE]
             ELSE LET below == PreorderChildren(d, t, Append(path, n),
                                                ChildrenInRelationOrder(d, n), 1)
                  IN  [calls |-> <<call>> \o below.calls, stopped |-> below.stopped]

PreorderChildren(d, t, path, children, k) ==
    IF k > Len(children) THEN [calls |-> <<>>, stopped |-> FALSE]
    ELSE LET first == Preorder(d, t, path, children[k])
         IN  IF first.stopped THEN first
             ELSE LET rest == PreorderChildren(d, t, path, children, k + 1)
                  IN  [calls |-> first.calls \o rest.calls, stopped |-> rest.stopped]

\* the pairs of SharedPairs, and the pair that leads from the third position
\* to the second
OrderPairs == SharedPairs \o << <<3, 2>> >>

\* the definition structures of the traversals whose order is compared: at
\* most MaxOrderRel of OrderPairs, in their order, so that a node can have
\* a child with a child of its own before a later child
OrderDtos ==
    {[vis_release |-> VisVersionToString("3-4a"),
      items |-> [k \in 1..NumNodes |-> GmodNodeDto(CodeNames[k])],
      relations |-> [k \in 1..Cardinality(positions) |->
                        LET p == SubList(OrderPairs, positions)[k]
                        IN  <<CodeNames[p[1]], CodeNames[p[2]]>>]] :
        positions \in {ps \in SUBSET (1..Len(OrderPairs)) : Cardinality(ps) <= MaxOrderRel}}

OrderInit ==
    /\ gmod_dto \in OrderDtos
    /\ gmod = GmodNew(gmod_dto)
    /\ pc = "idle"
    /\ start = 0
    /\ context = [ids |-> <<>>, parents |-> <<>>]
    /\ frames = <<>>
    /\ ret = "none"
    /\ result = FALSE
    /\ trace = <<>>
    /\ VisStart
    /\ assets = <<>>
    /\ node = NoNode
    /\ answer = NoAnswer
    /\ suspended = NotStarted

\* the handler of the two runs is one function of (ancestors, node)
SameHandler == AnswersByArguments(suspended.trace \o trace)

\* the second run is started at the node the first run was started at
SameStart == suspended.pc = "done" => start = suspended.start

\* Gmod::traverse, the second time with the handler of the first
TraverseAgain == Traverse /\ SameStart'

\* Gmod::traverse_from, the second time from the same node
TraverseFromAgain == TraverseFrom /\ SameStart'

\* traverse_node up to the answer of the handler, which is the answer it has
\* given to the same ancestors and node before
TraverseNodeEnterSameHandler == TraverseNodeEnter /\ SameHandler'

\* the first run has returned: its invocations are kept and the caller is
\* ready for the second run
RunAgain ==
    /\ pc = "done"
    /\ suspended = NotStarted
    /\ Switch

OrderNext ==
    \/ TraverseAgain
    \/ TraverseFromAgain
    \/ TraverseNodeEnterSameHandler
    \/ TraverseNodeLoop
    \/ TraverseFromReturn
    \/ RunAgain

OrderSpec == OrderInit /\ [][OrderNext]_vars

\* a traversal has made the first handler invocations of the reference
\* recursion, and all of them when it has returned
InPreorder(l) ==
    (l.pc # "idle" /\ AnswersByArguments(l.trace)) =>
        LET reference == Preorder(gmod_dto, l.trace, <<>>, l.start).calls
        IN  /\ IsPrefix(Invocations(l.trace), reference)
            /\ l.pc = "done" => Invocations(l.trace) = reference

\* C23: the visit order is deterministic depth-first preorder.  For a fixed
\* graph and a handler whose answers depend only on (ancestors, node), the
\* handler invocations of a traversal are those of the reference recursion
\* over the relation list, in its order, and two runs of the same traversal
\* make the same sequence of invocations.
C23_DeterministicPreorder ==
    /\ InPreorder(Locals)
    /\ InPreorder(suspended)
    /\ (/\ pc # "idle"
        /\ suspended.pc # "idle"
        /\ start = suspended.start
        /\ AnswersByArguments(trace \o suspended.trace)) =>
           /\ IsPrefix(trace, suspended.trace) \/ IsPrefix(suspended.trace, trace)
           /\ (pc = "done" /\ suspended.pc = "done") =>
                  (trace = suspended.trace /\ result = suspended.result)

\* two runs of a traversal with one handler have returned after the same
\* invocations, in which the child of a node was visited below it before the
\* next child of the node's parent, and a node before a sibling of lower
\* arena position
C23_Witness ==
    /\ pc = "done"
    /\ suspended.pc = "done"
    /\ start = suspended.start
    /\ trace = suspended.trace
    /\ \E i, j, k \in 1..Len(trace) :
          /\ i < j /\ j < k
          /\ trace[i].parents = trace[k].parents
          /\ trace[j].parents = Append(trace[i].parents, trace[i].node)
          /\ trace[i].node > trace[k].node

(***************************************************************************)
(* Claims about the path-tracking state                                    *)
(***************************************************************************)
\* no element occurs twice in a Vec
NoneTwice(vec) == \A j, k \in 1..Len(vec) : vec[j] = vec[k] => j = k

\* the membership set and the parents stack hold the same indices, and the
\* stack holds none of them twice
IdsAreParents ==
    /\ Range(context.ids) = Range(context.parents)
    /\ NoneTwice(context.parents)

\* the step returns from the traverse_node call on top of the stack with
\* Continue or SkipSubtree: the call leaves the stack alone, and its caller
\* goes on or traverse_from receives a result that is not Stop
ReturnsUnstopped ==
    /\ frames # <<>>
    /\ Len(frames') = Len(frames) - 1
    /\ frames' # <<>> \/ ret' # "Stop"

\* the parents stack that the handler of the traverse_node call on top of the
\* stack was given, which is the stack at the entry of the call
ParentsAtEntry ==
    LET own == {k \in 1..Len(trace) : trace[k].route = Route(frames)}
    IN  trace[CHOOSE k \in own : \A j \in own : j <= k].parents

\* a traverse_node call that returns Continue or SkipSubtree leaves the
\* stack and the set as they were at its entry: when it returns without
\* having pushed, the step changes neither, and when it returns from its loop
\* the pop gives back the stack of its entry and the set of that stack
C24_ReturnStep ==
    ReturnsUnstopped =>
        IF Top(frames).at = "enter" THEN context' = context
        ELSE /\ context'.parents = ParentsAtEntry
             /\ Range(context'.ids) = Range(ParentsAtEntry)
             /\ context.parents = Append(ParentsAtEntry, Top(frames).index)

\* C24: the path-tracking state stays consistent throughout a traversal.  At
\* every step the membership set ids contains exactly the elements of the
\* parents stack and the stack holds no arena index twice, and whenever
\* traverse_node returns Continue or SkipSubtree the stack and the set are
\* what they were when that call was entered: every push is matched by a pop
\* of the same index.
C24_PathTrackingConsistent == []IdsAreParents /\ [][C24_ReturnStep]_vars

\* a traversal has returned true with an empty stack and an empty set after
\* it was two pushes deep, a subtree was skipped and a child on the active
\* path was passed over
C24_Witness ==
    /\ pc = "done"
    /\ result
    /\ context = [ids |-> <<>>, parents |-> <<>>]
    /\ \E k \in 1..Len(trace) : Len(trace[k].parents) >= 2
    /\ \E k \in 1..Len(trace) : trace[k].result = "SkipSubtree"
    /\ HasCycleFrom(start)

====
